---- MODULE Spec2Model ----
(***************************************************************************)
(* Pack transport of the powergit daemon: the push handler (pushPack ->     *)
(* persistPush -> SupabaseWriter.uploadPending), the powersync-push edge    *)
(* function, and the fetch handler (fetchPack -> getLatestPack ->           *)
(* normalizePackBytes) with the git/fetch and git/push routes of the        *)
(* daemon HTTP server.                                                      *)
(*                                                                          *)
(* Text is a sequence of one-character strings, bytes a sequence of         *)
(* numbers 0..255.                                                          *)
(***************************************************************************)
EXTENDS Integers, Sequences, FiniteSets, TLC

(***************************************************************************)
(* Bounds of the model.                                                     *)
(***************************************************************************)
\* longest update list of one push request
MaxBatch == 2
\* indexPacks calls on one ObjectIndexQueue instance
MaxCalls == 2
\* longest pack list of one indexPacks call
MaxPacks == 2
\* longest path text given to normalize
MaxPathLen == 4
\* changes made to one filesystem
MaxWrites == 3
\* calls of fetchCredentials on one connector
MaxFetches == 2
\* runs of syncPowerSyncRepository
MaxSyncs == 2
\* longest CRUD transaction handed to the SupabaseWriter
MaxOps == 2
\* transactions one SupabaseWriter uploads
MaxTxs == 2
\* latest reading of the daemon's clock, in units of the challenge TTL's half
MaxNow == 4
\* waitForCredentials calls on one auth manager
MaxWaiters == 2
\* longest stream id list of one call
MaxIds == 2
\* calls made on one StreamSubscriptionManager
MaxStreamCalls == 3
\* requests sent to the auth routes of one server
MaxRequests == 2
\* longest passphrase, in characters
MaxPassLen == 1
\* runs of the provider's raw table migration effect (mount and remounts)
MaxEffectRuns == 2
\* longest stored pack_bytes text a replicated row carries
MaxTextLen == 4
\* cap of the ancestry walk of the fast-forward check
WalkCap == 3

(***************************************************************************)
(* Text and byte conversions (Node's Buffer).                               *)
(***************************************************************************)
B64Alphabet ==
    << "A","B","C","D","E","F","G","H","I","J","K","L","M","N","O","P",
       "Q","R","S","T","U","V","W","X","Y","Z","a","b","c","d","e","f",
       "g","h","i","j","k","l","m","n","o","p","q","r","s","t","u","v",
       "w","x","y","z","0","1","2","3","4","5","6","7","8","9","+","/" >>

B64Chars == { B64Alphabet[i] : i \in 1..Len(B64Alphabet) }

\* 0-based position of a character of the base64 alphabet
B64Index(c) == (CHOOSE i \in 1..Len(B64Alphabet) : B64Alphabet[i] = c) - 1

HexDigits ==
    << "0","1","2","3","4","5","6","7","8","9","a","b","c","d","e","f" >>

HexUpper == << "A","B","C","D","E","F" >>

HexChars ==
    { HexDigits[i] : i \in 1..Len(HexDigits) } \cup { HexUpper[i] : i \in 1..Len(HexUpper) }

HexVal(c) ==
    IF \E i \in 1..Len(HexDigits) : HexDigits[i] = c
    THEN (CHOOSE i \in 1..Len(HexDigits) : HexDigits[i] = c) - 1
    ELSE (CHOOSE i \in 1..Len(HexUpper) : HexUpper[i] = c) + 9

\* the character code of c (latin1), for the characters the model uses
CharCode(c) ==
    IF c \in B64Chars
    THEN LET i == B64Index(c)
         IN  IF i < 26 THEN 65 + i
             ELSE IF i < 52 THEN 97 + (i - 26)
             ELSE IF i < 62 THEN 48 + (i - 52)
             ELSE IF i = 62 THEN 43 ELSE 47
    ELSE CASE c = " "  -> 32
           [] c = "!"  -> 33
           [] c = "="  -> 61
           [] c = "\\" -> 92
           [] OTHER    -> 63

IsWhitespace(c) == c = " "

RECURSIVE TrimStart(_)
TrimStart(t) ==
    IF t # << >> /\ IsWhitespace(Head(t)) THEN TrimStart(Tail(t)) ELSE t

RECURSIVE TrimEnd(_)
TrimEnd(t) ==
    IF t # << >> /\ IsWhitespace(t[Len(t)])
    THEN TrimEnd(SubSeq(t, 1, Len(t) - 1))
    ELSE t

\* trim left out
TrimNone(t) == t

\* String.prototype.trim
Trim(t) == TrimEnd(TrimStart(t))

\* Buffer.toString('base64')
RECURSIVE Base64Encode(_)
Base64Encode(b) ==
    IF Len(b) = 0 THEN << >>
    ELSE IF Len(b) = 1 THEN
        << B64Alphabet[(b[1] \div 4) + 1],
           B64Alphabet[((b[1] % 4) * 16) + 1], "=", "=" >>
    ELSE IF Len(b) = 2 THEN
        << B64Alphabet[(b[1] \div 4) + 1],
           B64Alphabet[((b[1] % 4) * 16 + (b[2] \div 16)) + 1],
           B64Alphabet[((b[2] % 16) * 4) + 1], "=" >>
    ELSE
        << B64Alphabet[(b[1] \div 4) + 1],
           B64Alphabet[((b[1] % 4) * 16 + (b[2] \div 16)) + 1],
           B64Alphabet[((b[2] % 16) * 4 + (b[3] \div 64)) + 1],
           B64Alphabet[(b[3] % 64) + 1] >>
        \o Base64Encode(SubSeq(b, 4, Len(b)))

\* the characters of t before its first "="
RECURSIVE BeforePad(_)
BeforePad(t) ==
    IF t = << >> \/ Head(t) = "=" THEN << >>
    ELSE << Head(t) >> \o BeforePad(Tail(t))

\* bytes of a run of base64 alphabet characters
RECURSIVE Base64Bytes(_)
Base64Bytes(s) ==
    IF Len(s) < 2 THEN << >>
    ELSE LET i1 == B64Index(s[1])
             i2 == B64Index(s[2])
             b1 == i1 * 4 + (i2 \div 16)
         IN  IF Len(s) = 2 THEN << b1 >>
             ELSE LET i3 == B64Index(s[3])
                      b2 == (i2 % 16) * 16 + (i3 \div 4)
                  IN  IF Len(s) = 3 THEN << b1, b2 >>
                      ELSE LET i4 == B64Index(s[4])
                               b3 == (i3 % 4) * 64 + i4
                           IN  << b1, b2, b3 >> \o Base64Bytes(SubSeq(s, 5, Len(s)))

\* Buffer.from(text, 'base64'), for text of base64 shape
Base64Decode(t) == Base64Bytes(BeforePad(t))

\* Buffer.from(hex, 'hex'), for an even run of hex digits
RECURSIVE HexDecode(_)
HexDecode(h) ==
    IF Len(h) < 2 THEN << >>
    ELSE << HexVal(h[1]) * 16 + HexVal(h[2]) >> \o HexDecode(SubSeq(h, 3, Len(h)))

\* Buffer.from(text, 'binary'): one byte per character
BinaryBytes(t) == [ i \in 1..Len(t) |-> CharCode(t[i]) % 256 ]

\* /^[A-Za-z0-9+/]+={0,2}$/
MatchesBase64Shape(t) ==
    LET body == BeforePad(t)
        pad  == Len(t) - Len(body)
    IN  /\ Len(body) >= 1
        /\ pad <= 2
        /\ \A i \in 1..Len(body) : body[i] \in B64Chars
        /\ \A i \in (Len(body) + 1)..Len(t) : t[i] = "="

\* the shape test without the padding: /^[A-Za-z0-9+/]+$/
isLikelyBase64NoPad(value) ==
    /\ Len(value) # 0
    /\ Len(value) % 4 = 0
    /\ \A i \in 1..Len(value) : value[i] \in B64Chars

isLikelyBase64(value) ==
    /\ Len(value) # 0
    /\ Len(value) % 4 = 0
    /\ MatchesBase64Shape(value)

NullPack == [ kind |-> "null" ]

PackOf(bytes) == [ kind |-> "pack", base64 |-> Base64Encode(bytes), size |-> Len(bytes) ]

\* a stored pack_bytes value: a string (text) or something that is no string
StoredText(t) == [ isString |-> TRUE, text |-> t ]

NotAString == [ isString |-> FALSE, text |-> << >> ]

HasHexPrefix(t) == Len(t) >= 2 /\ t[1] = "\\" /\ t[2] = "x"

IsHexRun(h) ==
    /\ Len(h) >= 1
    /\ \A i \in 1..Len(h) : h[i] \in HexChars
    /\ Len(h) % 2 = 0

normalizePackBytes(raw) ==
    IF ~raw.isString \/ Len(raw.text) = 0 THEN NullPack
    ELSE LET trimmed == Trim(raw.text)
             hex     == SubSeq(trimmed, 3, Len(trimmed))
         IN  IF HasHexPrefix(trimmed) /\ IsHexRun(hex)
             THEN PackOf(HexDecode(hex))
             ELSE IF isLikelyBase64(trimmed)
             THEN PackOf(Base64Decode(trimmed))
             ELSE IF Len(BinaryBytes(trimmed)) = 0 THEN NullPack
             ELSE PackOf(BinaryBytes(trimmed))

(***************************************************************************)
(* The commit graph the pushes are about and the packs that carry it.       *)
(* B is a child of A; C is a root, so B and C do not descend from one       *)
(* another and C does not descend from A.                                   *)
(***************************************************************************)
Oids == { "A", "B", "C" }

Refs == { "r", "s" }

Procs == { "p1", "p2" }

Absent == "absent"

NoParent == "none"

Parent == [ o \in Oids |-> IF o = "B" THEN "A" ELSE NoParent ]

\* the pack file git builds for a commit (1, 2 and 3 bytes long)
PackFile ==
    [ o \in Oids |-> IF o = "A" THEN << 65 >>
                     ELSE IF o = "B" THEN << 66, 1 >>
                     ELSE << 67, 2, 255 >> ]

\* a push request without a pack part
NoPack == << >>

\* the objects a pack holds
PackObjects(bytes) == { o \in Oids : PackFile[o] = bytes }

\* the content-derived id of a pack
PackOid(bytes) == << "pack" >> \o bytes

(***************************************************************************)
(* The stores: the objects table, the pack bucket, the refs table.          *)
(* objects is kept in created_at order, the newest row last.                *)
(***************************************************************************)
\* the table keeps only the row put last
ObjectsPutSingle(rows, row) == << row >>

\* objects.put: INSERT ... ON CONFLICT(id) DO UPDATE SET pack_bytes, created_at
ObjectsPut(rows, row) ==
    SelectSeq(rows, LAMBDA r : r.pack_oid # row.pack_oid) \o << row >>

\* every pack is uploaded under one fixed key
UploadPackOneKey(b, key, contents) == [ k \in { << "pack" >> } |-> contents ]

\* storage.from(bucket).upload(key, payload, { upsert: true })
UploadPack(b, key, contents) ==
    [ k \in (DOMAIN b) \cup { key } |-> IF k = key THEN contents ELSE b[k] ]

\* refs.put: INSERT ... ON CONFLICT(id) DO UPDATE SET target_sha
RefsPut(rf, name, target) == [ rf EXCEPT ![name] = target ]

\* the ref listing: one <target_oid, name> pair per stored ref
listRefs(rf) == { << rf[n], n >> : n \in { m \in Refs : rf[m] # Absent } }

\* ORDER BY created_at DESC LIMIT 1; no row gives null
getLatestPack(rows) ==
    IF Len(rows) = 0 THEN [ kind |-> "null" ]
    ELSE [ kind |-> "row", row |-> rows[Len(rows)] ]

\* the bytes a stored row decodes to
RowBytes(row) ==
    LET n == normalizePackBytes(row.pack_bytes)
    IN  IF n.kind = "null" THEN << >> ELSE Base64Decode(n.base64)

\* the objects of all stored PackRecords
RecordedObjects(rows) == UNION { PackObjects(RowBytes(rows[i])) : i \in 1..Len(rows) }

(***************************************************************************)
(* Push requests.                                                           *)
(***************************************************************************)
NoDstEntry == [ src |-> "A", dst |-> "", force |-> FALSE ]

RawEntries == [ src : Oids, dst : Refs, force : BOOLEAN ] \cup { NoDstEntry }

RefRank(d) == IF d = "r" THEN 1 ELSE IF d = "s" THEN 2 ELSE 3

\* No two entries of a push name the same ref (git refuses such a push).  The
\* entries are listed in the order of their refs, an entry without dst last:
\* the updates of distinct refs do not depend on their order.
OrderedDst(b) == \A i \in 1..(Len(b) - 1) : RefRank(b[i].dst) < RefRank(b[i + 1].dst)

RawBatches ==
    { b \in UNION { [ 1..n -> RawEntries ] : n \in 1..MaxBatch } : OrderedDst(b) }

\* the requests sent to the edge function
EdgeBatches == { b \in RawBatches : Len(b) = 1 }

\* the pushes of the race: one update of ref r without force
RaceBatches == { << [ src |-> o, dst |-> "r", force |-> FALSE ] >> : o \in Oids }

\* the packs a client sends with a request: the pack of one of its commits, or none
ClientPacks(raw) == { PackFile[raw[i].src] : i \in 1..Len(raw) } \cup { NoPack }

\* parseUpdates: entries without a dst are dropped
parseUpdates(raw) == SelectSeq(raw, LAMBDA e : e.dst # "")

\* the refs a request names
NamedRefs(raw) == { raw[i].dst : i \in 1..Len(raw) } \ { "" }

Put(f, k, v) == [ x \in (DOMAIN f) \cup { k } |-> IF x = k THEN v ELSE f[x] ]

EmptyMap == [ x \in {} |-> 0 ]

StatusOk == [ status |-> "ok" ]

StatusError(msg) == [ status |-> "error", message |-> msg ]

\* only the first update of the request reports the error
buildPushErrorResultsFirst(updates, message) ==
    [ d \in { updates[1].dst } |-> StatusError(message) ]

\* buildPushErrorResults: every update of the request reports the error
buildPushErrorResults(updates, message) ==
    [ d \in { updates[i].dst : i \in 1..Len(updates) } |-> StatusError(message) ]

\* the powersync-push edge function: every update of the metadata reports ok
EdgeResults(raw) == [ d \in { raw[i].dst : i \in 1..Len(raw) } |-> StatusOk ]

(***************************************************************************)
(* persistPush: the fast-forward rule.                                      *)
(***************************************************************************)
\* bounded walk from the new target back toward the current one
RECURSIVE Walk(_, _, _, _)
Walk(o, target, known, fuel) ==
    IF o = target THEN TRUE
    ELSE IF fuel = 0 \/ o \notin known \/ Parent[o] = NoParent THEN FALSE
    ELSE Walk(Parent[o], target, known, fuel - 1)

Descends(new, cur, known) == Walk(new, cur, known, WalkCap)

\* absent ref: create; force: accept; otherwise fast-forward only
Validate(u, cur, known) ==
    \/ cur = Absent
    \/ u.force
    \/ Descends(u.src, cur, known)

NoResp == [ kind |-> "none" ]

NoAccepted == [ pack |-> NoPack, updates |-> {} ]

NoReq == [ raw |-> << >>, pack |-> NoPack, route |-> "none" ]

VARIABLES
    refs,             \* refs table: ref name -> target oid, or Absent
    objects,          \* objects table: rows [pack_oid, pack_bytes], newest last
    bucket,           \* pack bucket: key -> bytes
    crudPending,      \* the CRUD queue holds a transaction not yet uploaded
    pc,               \* where each push handler stands
    req,              \* its request
    idx,              \* the update persistPush works on
    seen,             \* the target persistPush read for that update
    attempt,          \* 1, or 2 after a compare-and-set conflict
    results,          \* the results persistPush has collected
    resp,             \* the response the handler gave
    startRefs,        \* the refs table when the handler started
    startObjects,     \* the objects table when the handler started
    raced,            \* the handler overlapped another push handler
    lastAccepted,     \* the pack and the accepted updates of the push answered last
    fetchResp         \* the last git/fetch response

\* the ObjectIndexQueue of the explorer (GitObjectStore)
VARIABLES
    indexedPacks,     \* IndexedPackSet of the instance: pack oids marked indexed
    persistedPacks,   \* IndexedPackSet as persisted in local storage
    objectDb,         \* pack oids decoded into the local object database
    packQueue,        \* packs waiting for their decode, oldest first
    decoding,         \* packs whose decode is in progress
    yielding,         \* the worker is at its scheduling point between two packs
    progress,         \* getProgress(): [status, total, completed]
    updates,          \* the progress updates the subscriber has received
    decodes,          \* pack oid -> decodes started by this instance
    failed,           \* pack oids whose decode failed in this instance
    loaded,           \* the IndexedPackSet this instance loaded when constructed
    evicted,          \* pack oids that were persisted as indexed and then cleared
    calls             \* the indexPacks calls made on this instance

\* PowerSyncFs.normalize applied to a path
VARIABLES
    pathIn,           \* the path text given
    pathOut           \* what normalize returned for it

pathVars == << pathIn, pathOut >>

\* one PowerSyncFs with its PackFileStore
VARIABLES
    fsTree,           \* the tree: the names from the root to a node -> the node
    packEntries,      \* PackFileStore.entries: normalized path -> [data, mtimeMs]
    clock,            \* Date.now()
    fsLast            \* the last method called and what it returned or threw

fsVars == << fsTree, packEntries, clock, fsLast >>

\* one DaemonPowerSyncConnector and the sync command of the CLI
VARIABLES
    connStatic,                 \* this.endpoint && this.token
    connHasProvider,            \* this.credentialsProvider is set
    notifiedMissingCredentials, \* the connector's warn-once flag
    fetchPc,                    \* where fetchCredentials stands
    lastProvider,               \* how the provider answered in this call
    providerCalls,              \* provider calls made by this call
    fetchResult,                \* what fetchCredentials returned
    fetches,                    \* calls of fetchCredentials completed
    syncPc,                     \* where syncPowerSyncRepository stands
    stored,                     \* what loadStoredCredentials gave
    syncOutcome,                \* how the command ended
    requests,                   \* requests this run sent to the daemon
    syncs                       \* runs completed

credVars ==
    << connStatic, connHasProvider, notifiedMissingCredentials, fetchPc, lastProvider,
       providerCalls, fetchResult, fetches, syncPc, stored, syncOutcome, requests, syncs >>

daemonVars ==
    << refs, objects, bucket, crudPending, pc, req, idx, seen,
       attempt, results, resp, startRefs, startObjects, raced, lastAccepted, fetchResp >>

indexVars ==
    << indexedPacks, persistedPacks, objectDb, packQueue, decoding, yielding,
       progress, updates, decodes, failed, loaded, evicted, calls >>

\* all that the daemon's handlers never touch
\* one SupabaseWriter and the Supabase tables it writes
VARIABLES
    writerTx,         \* the CRUD transaction applied last
    upsertCalls,      \* supabase.from(table).upsert calls of that transaction
    deleteCalls,      \* supabase.from(table).delete().in calls of that transaction
    remoteRows,       \* << table, id >> of the rows Supabase holds
    writerResult,     \* how applyTransaction ended
    txs,               \* transactions taken from the queue
    uploadPc,         \* where the uploadPending call stands
    writerCompleted,  \* tx.complete() was called for writerTx
    batchPc,          \* where the explorer connector's uploadData call stands
    batchLast         \* the last batch uploadData took and what became of it

writerVars ==
    << writerTx, upsertCalls, deleteCalls, remoteRows, writerResult, txs,
       uploadPc, writerCompleted, batchPc, batchLast >>

\* the daemon's auth manager and its device-flow coordinator
VARIABLES
    authBuilt,            \* the manager and the coordinator exist
    authDefaultEndpoint,  \* authManager.getDefaultEndpoint()
    authStatus,           \* status of the auth status payload
    authToken,            \* token of the ready credentials
    authContext,          \* challengeId in the context of the status payload
    waiters,              \* the waitForCredentials calls, in call order
    challenges,           \* DeviceAuthCoordinator.challenges
    devNow,               \* Date.now()
    devLast,              \* the last call and what it returned
    spent                 \* ids that complete() accepted and begin() has not issued again

authVars ==
    << authBuilt, authDefaultEndpoint, authStatus, authToken, authContext, waiters,
       challenges, devNow, devLast, spent >>

\* the daemon's StreamSubscriptionManager and the HTTP server in front of it
VARIABLES
    desired,          \* StreamSubscriptionManager.desired
    active,           \* keys of StreamSubscriptionManager.active
    caller,           \* each caller's position in add or resubscribeAll
    streamLast,       \* the last call that returned, with its result
    streamCalls,      \* calls started
    httpLast,         \* the last HTTP request and its response
    live              \* per stream id, the subscriptions obtained and not unsubscribed

streamVars == << desired, active, caller, streamLast, streamCalls, httpLast, live >>

\* the auth routes of the daemon HTTP server
VARIABLES
    authHttp,         \* the last request to an auth route and its response
    authRequests      \* requests answered

serverVars == << authHttp, authRequests >>

\* the explorer's vault provider
VARIABLES
    vaultMounted,   \* the provider has mounted
    vaultRequired,  \* resolveVaultRequirement()
    vaultWindow,    \* what the window offers
    vaultUser,      \* the signed-in user's id, or none
    vaultState,     \* the provider's state
    vaultStorage,   \* the stored verifier of each user
    vaultCall,      \* the createVault or unlockVault that awaits its hash
    vaultLast       \* the last call and its outcome

vaultVars == << vaultMounted, vaultRequired, vaultWindow, vaultUser, vaultState,
                vaultStorage, vaultCall, vaultLast >>

\* startDaemon's connection task and shutdown sequence
VARIABLES
    started,          \* startDaemon has created the stream manager
    connectionReady,  \* connectionReady
    running,          \* running
    aborted,          \* abortController.signal.aborted
    connTask,         \* where the connection task stands
    shutdown,         \* where the shutdown sequence stands
    lifeLast          \* the last stream request and its answer

lifeVars == << started, connectionReady, running, aborted, connTask, shutdown, lifeLast >>

\* PowerSyncProvider: the migration effect is mounted, the build's disabled
\* flag, the daemon preference, the rawTablesReady state, rawTableMigratedRef,
\* the runs of the migration effect with each run's migrate() and cancelled
\* flag, the session status, the session's token, the daemon's readiness, and
\* the connect effect's connect(): its position, attempt and disposed flag
VARIABLES effectOn, isPowerSyncDisabled, preferDaemon, rawTablesReady,
          rawTableMigratedRef, effectRuns, migratePc, cancelled, sessionStatus,
          accessToken, daemonReady, connectPc, connectAttempt, disposed

provVars == << effectOn, isPowerSyncDisabled, preferDaemon, rawTablesReady, rawTableMigratedRef, effectRuns, migratePc, cancelled, sessionStatus, accessToken, daemonReady, connectPc, connectAttempt, disposed >>

clientVars == << indexVars, pathVars, fsVars, credVars, writerVars, authVars, streamVars, serverVars, vaultVars, lifeVars, provVars >>

otherThanIndex == << daemonVars, pathVars, fsVars, credVars, writerVars, authVars, streamVars, serverVars, vaultVars, lifeVars, provVars >>

otherThanPath == << daemonVars, indexVars, fsVars, credVars, writerVars, authVars, streamVars, serverVars, vaultVars, lifeVars, provVars >>

otherThanFs == << daemonVars, indexVars, pathVars, credVars, writerVars, authVars, streamVars, serverVars, vaultVars, lifeVars, provVars >>

otherThanCred == << daemonVars, indexVars, pathVars, fsVars, writerVars, authVars, streamVars, serverVars, vaultVars, lifeVars, provVars >>

otherThanWriter == << daemonVars, indexVars, pathVars, fsVars, credVars, authVars, streamVars, serverVars, vaultVars, lifeVars, provVars >>

otherThanAuth == << daemonVars, indexVars, pathVars, fsVars, credVars, writerVars, streamVars, serverVars, vaultVars, lifeVars, provVars >>

otherThanStreams == << daemonVars, indexVars, pathVars, fsVars, credVars, writerVars, authVars, serverVars, vaultVars, lifeVars, provVars >>

otherThanServer == << daemonVars, indexVars, pathVars, fsVars, credVars, writerVars, authVars, streamVars, vaultVars, lifeVars, provVars >>

otherThanVault == << daemonVars, indexVars, pathVars, fsVars, credVars, writerVars, authVars, streamVars, serverVars, lifeVars, provVars >>

otherThanLife == << daemonVars, indexVars, pathVars, fsVars, credVars, writerVars, authVars, streamVars, serverVars, vaultVars, provVars >>

otherThanStreamsAndLife == << daemonVars, indexVars, pathVars, fsVars, credVars, writerVars, authVars, serverVars, vaultVars, provVars >>

otherThanProvider == << daemonVars, indexVars, pathVars, fsVars, credVars, writerVars, authVars, streamVars, serverVars, vaultVars, lifeVars >>

vars == << daemonVars, clientVars >>

storeVars == << refs, objects, bucket, crudPending >>

pushVars == << pc, req, idx, seen, attempt, results, resp, startRefs, startObjects, raced >>

DaemonInit ==
    /\ refs = [ n \in Refs |-> Absent ]
    /\ objects = << >>
    /\ bucket = EmptyMap
    /\ crudPending = FALSE
    /\ pc = [ p \in Procs |-> "idle" ]
    /\ req = [ p \in Procs |-> NoReq ]
    /\ idx = [ p \in Procs |-> 0 ]
    /\ seen = [ p \in Procs |-> Absent ]
    /\ attempt = [ p \in Procs |-> 1 ]
    /\ results = [ p \in Procs |-> EmptyMap ]
    /\ resp = [ p \in Procs |-> NoResp ]
    /\ startRefs = [ p \in Procs |-> [ n \in Refs |-> Absent ] ]
    /\ startObjects = [ p \in Procs |-> << >> ]
    /\ raced = [ p \in Procs |-> FALSE ]
    /\ lastAccepted = NoAccepted
    /\ fetchResp = NoResp

Updates(p) == parseUpdates(req[p].raw)

InFlight(p) == pc[p] \notin { "idle", "done" }

(***************************************************************************)
(* The git/push route of the daemon server and pushPack.                    *)
(***************************************************************************)
\* a client pushes a pack that covers the objects the remote does not hold yet
Covers(raw, pack, known) ==
    \A i \in 1..Len(raw) : raw[i].src \in known \cup PackObjects(pack)

\* the route parses the payload and calls pushPack (or the edge function is called)
StartPush(p, batches, trackObjects) ==
    /\ pc[p] = "idle"
    /\ LET known == RecordedObjects(objects)
       IN  \E raw \in batches : \E pack \in ClientPacks(raw) :
        /\ Len(parseUpdates(raw)) > 0
        /\ Covers(raw, pack, known)
        /\ req' = [ req EXCEPT ![p] = [ raw |-> raw, pack |-> pack, route |-> "daemon" ] ]
        /\ pc' = [ pc EXCEPT ![p] = "store" ]
    /\ idx' = [ idx EXCEPT ![p] = 1 ]
    /\ attempt' = [ attempt EXCEPT ![p] = 1 ]
    /\ results' = [ results EXCEPT ![p] = EmptyMap ]
    /\ resp' = [ resp EXCEPT ![p] = NoResp ]
    /\ startRefs' = [ startRefs EXCEPT ![p] = refs ]
    /\ startObjects' = [ startObjects EXCEPT ![p] = IF trackObjects THEN objects ELSE @ ]
    /\ raced' = [ q \in Procs |->
                    IF q = p THEN \E o \in Procs \ { p } : InFlight(o)
                    ELSE raced[q] \/ InFlight(q) ]
    /\ lastAccepted' = NoAccepted
    /\ fetchResp' = NoResp
    /\ UNCHANGED << storeVars, seen >>
    /\ UNCHANGED clientVars

\* the route answers 400 when no update of the payload names a ref
BadRequest(p, batches) ==
    /\ pc[p] = "idle"
    /\ \E raw \in batches :
        /\ Len(parseUpdates(raw)) = 0
        /\ req' = [ req EXCEPT ![p] = [ raw |-> raw, pack |-> NoPack, route |-> "daemon" ] ]
    /\ resp' = [ resp EXCEPT ![p] = [ kind |-> "http", status |-> 400 ] ]
    /\ pc' = [ pc EXCEPT ![p] = "done" ]
    /\ results' = [ results EXCEPT ![p] = EmptyMap ]
    /\ startRefs' = [ startRefs EXCEPT ![p] = refs ]
    /\ startObjects' = [ startObjects EXCEPT ![p] = objects ]
    /\ lastAccepted' = NoAccepted
    /\ fetchResp' = NoResp
    /\ UNCHANGED << storeVars, idx, seen, attempt, raced >>
    /\ UNCHANGED clientVars

\* the powersync-push edge function receives a push and answers it
EdgePush(p) ==
    /\ pc[p] = "idle"
    /\ \E raw \in EdgeBatches :
        /\ req' = [ req EXCEPT ![p] = [ raw |-> raw, pack |-> NoPack, route |-> "edge" ] ]
        /\ resp' = [ resp EXCEPT ![p] =
                       [ kind |-> "push", status |-> 200, ok |-> TRUE,
                         results |-> EdgeResults(raw) ] ]
    /\ pc' = [ pc EXCEPT ![p] = "done" ]
    /\ results' = [ results EXCEPT ![p] = EmptyMap ]
    /\ startRefs' = [ startRefs EXCEPT ![p] = refs ]
    /\ startObjects' = [ startObjects EXCEPT ![p] = objects ]
    /\ lastAccepted' = NoAccepted
    /\ fetchResp' = NoResp
    /\ UNCHANGED << storeVars, idx, seen, attempt, raced >>
    /\ UNCHANGED clientVars

\* persistPush records the pack before it touches a ref
StorePack(p) ==
    /\ pc[p] = "store"
    /\ IF req[p].pack = NoPack
       THEN UNCHANGED << objects, bucket, crudPending >>
       ELSE /\ objects' = ObjectsPut(objects,
                   [ pack_oid |-> PackOid(req[p].pack),
                     pack_bytes |-> StoredText(Base64Encode(req[p].pack)) ])
            /\ bucket' = UploadPack(bucket, PackOid(req[p].pack), req[p].pack)
            /\ crudPending' = TRUE
    /\ pc' = [ pc EXCEPT ![p] = "read" ]
    /\ UNCHANGED << refs, req, idx, seen, attempt, results, resp,
                    startRefs, startObjects, raced, lastAccepted, fetchResp >>
    /\ UNCHANGED clientVars

\* after update idx: the next update, or persistPush has finished
Advance(p) == IF idx[p] < Len(Updates(p)) THEN "read" ELSE "persisted"

\* persistPush reads the ref of the update and validates the update
ReadRef(p) ==
    /\ pc[p] = "read"
    /\ LET u == Updates(p)[idx[p]]
       IN  /\ seen' = [ seen EXCEPT ![p] = refs[u.dst] ]
           /\ IF Validate(u, refs[u.dst], RecordedObjects(objects))
              THEN /\ pc' = [ pc EXCEPT ![p] = "cas" ]
                   /\ UNCHANGED << results, idx >>
              ELSE /\ results' = [ results EXCEPT ![p] =
                                     Put(@, u.dst, StatusError("non-fast-forward")) ]
                   /\ pc' = [ pc EXCEPT ![p] = Advance(p) ]
                   /\ idx' = [ idx EXCEPT ![p] = @ + 1 ]
    /\ attempt' = [ attempt EXCEPT ![p] = 1 ]
    /\ UNCHANGED << storeVars, req, resp, startRefs, startObjects,
                    raced, lastAccepted, fetchResp >>
    /\ UNCHANGED clientVars

\* persistPush upserts the ref if its target is still the one it read
CasWrite(p) ==
    /\ pc[p] = "cas"
    /\ LET u == Updates(p)[idx[p]]
       IN  /\ refs[u.dst] = seen[p]
           /\ refs' = RefsPut(refs, u.dst, u.src)
           /\ results' = [ results EXCEPT ![p] = Put(@, u.dst, StatusOk) ]
    /\ crudPending' = TRUE
    /\ pc' = [ pc EXCEPT ![p] = Advance(p) ]
    /\ idx' = [ idx EXCEPT ![p] = @ + 1 ]
    /\ attempt' = [ attempt EXCEPT ![p] = 1 ]
    /\ UNCHANGED << objects, bucket, req, seen, resp, startRefs,
                    startObjects, raced, lastAccepted, fetchResp >>
    /\ UNCHANGED clientVars

\* the target changed under persistPush: read again and validate again, once
CasConflict(p) ==
    /\ pc[p] = "cas"
    /\ LET u == Updates(p)[idx[p]]
       IN  /\ refs[u.dst] # seen[p]
           /\ IF attempt[p] = 1 /\ Validate(u, refs[u.dst], RecordedObjects(objects))
              THEN /\ seen' = [ seen EXCEPT ![p] = refs[u.dst] ]
                   /\ attempt' = [ attempt EXCEPT ![p] = 2 ]
                   /\ UNCHANGED << pc, idx, results >>
              ELSE /\ results' = [ results EXCEPT ![p] =
                                     Put(@, u.dst,
                                         StatusError(IF attempt[p] = 1
                                                     THEN "non-fast-forward"
                                                     ELSE "conflict")) ]
                   /\ pc' = [ pc EXCEPT ![p] = Advance(p) ]
                   /\ idx' = [ idx EXCEPT ![p] = @ + 1 ]
                   /\ attempt' = [ attempt EXCEPT ![p] = 1 ]
                   /\ UNCHANGED seen
    /\ UNCHANGED << storeVars, req, resp, startRefs, startObjects,
                    raced, lastAccepted, fetchResp >>
    /\ UNCHANGED clientVars

\* the result persistPush returns
PersistResult(p) ==
    [ kind |-> "push", status |-> 200,
      ok |-> \A d \in DOMAIN results[p] : results[p][d].status = "ok",
      results |-> results[p] ]

\* pushPack: uploadPending completed every pending transaction.  (A daemon without
\* a SupabaseWriter skips the upload; it answers as one whose upload succeeds.)
PushRespond(p) ==
    /\ pc[p] = "persisted"
    /\ crudPending' = FALSE
    /\ resp' = [ resp EXCEPT ![p] = PersistResult(p) ]
    /\ pc' = [ pc EXCEPT ![p] = "done" ]
    /\ UNCHANGED << refs, objects, bucket, req, idx, seen, attempt,
                    results, startRefs, startObjects, raced, lastAccepted, fetchResp >>
    /\ UNCHANGED clientVars

\* pushPack: uploadPending threw; the catch block answers for every update
PushUploadFail(p) ==
    /\ pc[p] = "persisted"
    /\ crudPending
    /\ resp' = [ resp EXCEPT ![p] =
                   [ kind |-> "push", status |-> 200, ok |-> FALSE,
                     results |-> buildPushErrorResults(Updates(p), "upload failed") ] ]
    /\ pc' = [ pc EXCEPT ![p] = "done" ]
    /\ UNCHANGED << storeVars, req, idx, seen, attempt, results,
                    startRefs, startObjects, raced, lastAccepted, fetchResp >>
    /\ UNCHANGED clientVars

\* what the answered daemon push had accepted: its pack and its ok updates
Accepted(p) ==
    IF resp[p].kind # "push" \/ req[p].route # "daemon" THEN NoAccepted
    ELSE [ pack |-> req[p].pack,
           updates |-> { << Updates(p)[i].dst, Updates(p)[i].src >> :
                           i \in { j \in 1..Len(Updates(p)) :
                                     resp[p].results[Updates(p)[j].dst].status = "ok" } } ]

\* the client has its answer; the handler is free for the next request
Finish(p) ==
    /\ pc[p] = "done"
    /\ pc' = [ pc EXCEPT ![p] = "idle" ]
    /\ req' = [ req EXCEPT ![p] = NoReq ]
    /\ idx' = [ idx EXCEPT ![p] = 0 ]
    /\ seen' = [ seen EXCEPT ![p] = Absent ]
    /\ attempt' = [ attempt EXCEPT ![p] = 1 ]
    /\ results' = [ results EXCEPT ![p] = EmptyMap ]
    /\ resp' = [ resp EXCEPT ![p] = NoResp ]
    /\ startRefs' = [ startRefs EXCEPT ![p] = [ n \in Refs |-> Absent ] ]
    /\ startObjects' = [ startObjects EXCEPT ![p] = << >> ]
    /\ raced' = [ raced EXCEPT ![p] = FALSE ]
    /\ lastAccepted' = Accepted(p)
    /\ fetchResp' = NoResp
    /\ UNCHANGED storeVars
    /\ UNCHANGED clientVars

(***************************************************************************)
(* The git/fetch route of the daemon server and fetchPack.                  *)
(***************************************************************************)
NoWants == { "-" }

WantChoices == { NoWants, { "A" }, { "Z" } }

\* fetchPack of the daemon: the wants of the request are not read
fetchPack(rows, wants, lookupFails) ==
    IF lookupFails THEN NullPack
    ELSE LET packRow == getLatestPack(rows)
         IN  IF packRow.kind = "null" THEN NullPack
             ELSE LET normalized == normalizePackBytes(packRow.row.pack_bytes)
                  IN  IF normalized.kind = "null" THEN NullPack
                      ELSE [ kind |-> "pack", base64 |-> normalized.base64,
                             size |-> normalized.size, packOid |-> packRow.row.pack_oid ]

\* the route: 404 without a payload, else 200 with the pack
FetchRoute(payload, wants, lookupFails) ==
    IF payload.kind = "null"
    THEN [ kind |-> "fetch", status |-> 404, wants |-> wants, lookupFailed |-> lookupFails ]
    ELSE [ kind |-> "fetch", status |-> 200, wants |-> wants, lookupFailed |-> lookupFails,
           pack |-> payload.base64, keep |-> payload.packOid, size |-> payload.size ]

FetchPack ==
    /\ \A p \in Procs : pc[p] = "idle"
    /\ \E wants \in WantChoices, lookupFails \in BOOLEAN :
        fetchResp' = FetchRoute(fetchPack(objects, wants, lookupFails), wants, lookupFails)
    /\ UNCHANGED << storeVars, pushVars, lastAccepted >>
    /\ UNCHANGED clientVars

(***************************************************************************)
(* Replication of the objects table from the backing store.                 *)
(***************************************************************************)
TextChars == { "\\", "x", "4", "1", "Q", "=", "!", " " }

StoredTexts == UNION { [ 1..n -> TextChars ] : n \in 0..MaxTextLen }

StoredValues == { StoredText(t) : t \in StoredTexts } \cup { NotAString }

RemoteOid == << "pack", 0 >>

\* a row of another writer arrives and is put into the objects table
ReplicateRow ==
    /\ \A i \in 1..Len(objects) : objects[i].pack_oid # RemoteOid
    /\ \E v \in StoredValues :
        objects' = ObjectsPut(objects, [ pack_oid |-> RemoteOid, pack_bytes |-> v ])
    /\ fetchResp' = NoResp
    /\ lastAccepted' = NoAccepted
    /\ UNCHANGED << refs, bucket, crudPending, pushVars >>
    /\ UNCHANGED clientVars

(***************************************************************************)
(* The ObjectIndexQueue of the explorer (GitObjectStore of git-store.ts):   *)
(* indexPacks, the worker that decodes one pack at a time, the progress     *)
(* updates, and the persisted IndexedPackSet.                                *)
(***************************************************************************)
PackOids == { "a", "b", "x" }

\* packs whose bytes no decode accepts
CorruptPacks == { "x" }

\* pack lists of a call: rows of distinct pack_oid
PackLists ==
    { l \in UNION { [ 1..n -> PackOids ] : n \in 1..MaxPacks } :
        \A i, j \in 1..Len(l) : i # j => l[i] # l[j] }

IdleProgress == [ status |-> "idle", total |-> 0, completed |-> 0 ]

\* the worker has a pack in hand, or packs wait for it
Working == Len(packQueue) > 0 \/ Len(decoding) > 0 \/ yielding

\* every pack goes to the queue
FreshAll(packs, indexed) == packs

\* the packs of a call whose pack_oid is not in IndexedPackSet
Fresh(packs, indexed) == SelectSeq(packs, LAMBDA o : o \notin indexed)

\* the first update of a run without its total
StartedProgressNoTotal(n) == [ status |-> "indexing", total |-> 0, completed |-> 0 ]

\* the progress a run starts with
StartedProgress(n) == [ status |-> "indexing", total |-> n, completed |-> 0 ]

\* a new decode starts whatever the worker is at
WorkerAlwaysFree == TRUE

\* the worker takes the next pack only when it holds none
WorkerFree == Len(decoding) = 0 /\ ~yielding

\* a decode fails on a pack the object database already holds
DecodeFailsOnHeld(o, db) == o \notin CorruptPacks /\ o \notin db

\* the decode of a pack into the local object database succeeds
DecodeSucceeds(o, db) == o \notin CorruptPacks

\* the pack is marked whatever its decode gave
MarkedAlways(o, ok, indexed) == indexed \cup { o }

\* processPack marks the pack indexed once its decode has succeeded
Marked(o, ok, indexed) == IF ok THEN indexed \cup { o } ELSE indexed

IndexInit ==
    /\ indexedPacks = {}
    /\ persistedPacks = {}
    /\ objectDb = {}
    /\ packQueue = << >>
    /\ decoding = << >>
    /\ yielding = FALSE
    /\ progress = IdleProgress
    /\ updates = << >>
    /\ decodes = [ o \in PackOids |-> 0 ]
    /\ failed = {}
    /\ loaded = {}
    /\ evicted = {}
    /\ calls = << >>

\* indexPacks(packs): the new packs join the queue and the run is announced
IndexPacks ==
    /\ Len(calls) < MaxCalls
    /\ \E packs \in PackLists :
        LET fresh == Fresh(packs, indexedPacks)
            next  == IF Len(fresh) = 0
                     THEN IF Working THEN progress
                          ELSE [ progress EXCEPT !.status = "ready" ]
                     ELSE IF progress.status = "indexing"
                          THEN [ progress EXCEPT !.total = @ + Len(fresh) ]
                          ELSE StartedProgress(Len(fresh))
        IN  /\ packQueue' = packQueue \o fresh
            /\ progress' = next
            /\ updates' = IF next = progress THEN updates ELSE Append(updates, next)
            /\ calls' = Append(calls, [ packs |-> packs, fresh |-> Len(fresh),
                                        during |-> progress.status ])
    /\ UNCHANGED << indexedPacks, persistedPacks, objectDb, decoding, yielding,
                    decodes, failed, loaded, evicted >>
    /\ UNCHANGED otherThanIndex

\* the worker takes the oldest waiting pack and starts its decode
StartDecode ==
    /\ Len(packQueue) > 0
    /\ WorkerFree
    /\ decoding' = Append(decoding, Head(packQueue))
    /\ packQueue' = Tail(packQueue)
    /\ decodes' = [ decodes EXCEPT ![Head(packQueue)] = @ + 1 ]
    /\ UNCHANGED << indexedPacks, persistedPacks, objectDb, yielding, progress,
                    updates, failed, loaded, evicted, calls >>
    /\ UNCHANGED otherThanIndex

\* the decode ends: a decoded pack is marked and the set persisted; the
\* completion is announced and the worker goes to its scheduling point
FinishDecode ==
    /\ Len(decoding) > 0
    /\ LET o  == Head(decoding)
           ok == DecodeSucceeds(o, objectDb)
       IN  /\ indexedPacks' = Marked(o, ok, indexedPacks)
           /\ persistedPacks' = IF indexedPacks' = indexedPacks THEN persistedPacks
                                ELSE indexedPacks'
           /\ objectDb' = IF ok THEN objectDb \cup { o } ELSE objectDb
           /\ failed' = IF ok THEN failed ELSE failed \cup { o }
    /\ decoding' = Tail(decoding)
    /\ progress' = [ progress EXCEPT !.completed = @ + 1 ]
    /\ updates' = Append(updates, progress')
    /\ yielding' = TRUE
    /\ UNCHANGED << packQueue, decodes, loaded, evicted, calls >>
    /\ UNCHANGED otherThanIndex

\* yieldToBrowser returns: the next pack, or the run ends ready
Yield ==
    /\ yielding
    /\ yielding' = FALSE
    /\ IF Len(packQueue) = 0 /\ Len(decoding) = 0
       THEN /\ progress' = [ progress EXCEPT !.status = "ready" ]
            /\ updates' = Append(updates, progress')
       ELSE UNCHANGED << progress, updates >>
    /\ UNCHANGED << indexedPacks, persistedPacks, objectDb, packQueue, decoding,
                    decodes, failed, loaded, evicted, calls >>
    /\ UNCHANGED otherThanIndex

\* the host evicts the persisted IndexedPackSet
ClearPersisted ==
    /\ persistedPacks # {}
    /\ persistedPacks' = {}
    /\ evicted' = evicted \cup persistedPacks
    /\ UNCHANGED << indexedPacks, objectDb, packQueue, decoding, yielding, progress,
                    updates, decodes, failed, loaded, calls >>
    /\ UNCHANGED otherThanIndex

\* a new instance is constructed: it loads the persisted set; the object
\* database is the one the earlier instance wrote
Reload ==
    /\ Len(calls) > 0
    /\ indexedPacks' = persistedPacks
    /\ loaded' = persistedPacks
    /\ packQueue' = << >>
    /\ decoding' = << >>
    /\ yielding' = FALSE
    /\ progress' = IdleProgress
    /\ updates' = << >>
    /\ decodes' = [ o \in PackOids |-> 0 ]
    /\ failed' = {}
    /\ calls' = << >>
    /\ UNCHANGED << persistedPacks, objectDb, evicted >>
    /\ UNCHANGED otherThanIndex

(***************************************************************************)
(* Paths of the virtual filesystem (PowerSyncFs.normalize).                 *)
(***************************************************************************)
PathChars == { "/", ".", "a", " ", "\\" }

PathTexts == UNION { [ 1..n -> PathChars ] : n \in 0..MaxPathLen }

\* path.replace(/\\/g, '/')
ReplaceBackslashes(t) == [ i \in 1..Len(t) |-> IF t[i] = "\\" THEN "/" ELSE t[i] ]

\* .replace(/\/+/g, '/')
RECURSIVE CollapseSlashes(_)
CollapseSlashes(t) ==
    IF Len(t) <= 1 THEN t
    ELSE IF t[1] = "/" /\ t[2] = "/" THEN CollapseSlashes(Tail(t))
    ELSE << t[1] >> \o CollapseSlashes(Tail(t))

\* the text up to the first slash
RECURSIVE UpToSlash(_)
UpToSlash(t) ==
    IF Len(t) = 0 \/ t[1] = "/" THEN << >> ELSE << t[1] >> \o UpToSlash(Tail(t))

\* String.prototype.split('/')
RECURSIVE SplitSlash(_)
SplitSlash(t) ==
    LET first == UpToSlash(t)
    IN  IF Len(first) = Len(t) THEN << first >>
        ELSE << first >> \o SplitSlash(SubSeq(t, Len(first) + 2, Len(t)))

DotSegment == << "." >>

DotDotSegment == << ".", "." >>

\* the loop of normalize: '' and '.' are skipped, '..' pops
RECURSIVE ResolveSegments(_, _)
ResolveSegments(todo, segments) ==
    IF Len(todo) = 0 THEN segments
    ELSE LET segment == Head(todo)
         IN  IF Len(segment) = 0 \/ segment = DotSegment
             THEN ResolveSegments(Tail(todo), segments)
             ELSE IF segment = DotDotSegment
             THEN ResolveSegments(Tail(todo),
                      IF Len(segments) > 0 THEN SubSeq(segments, 1, Len(segments) - 1)
                      ELSE segments)
             ELSE ResolveSegments(Tail(todo), Append(segments, segment))

\* segments.join('/')
RECURSIVE JoinSlash(_)
JoinSlash(segments) ==
    IF Len(segments) = 0 THEN << >>
    ELSE IF Len(segments) = 1 THEN segments[1]
    ELSE segments[1] \o << "/" >> \o JoinSlash(Tail(segments))

RootPath == << "/" >>

\* PowerSyncFs.normalize
normalize(path) ==
    IF Len(path) = 0 THEN RootPath
    ELSE LET cleaned == Trim(CollapseSlashes(ReplaceBackslashes(path)))
         IN  IF Len(cleaned) = 0 THEN RootPath
             ELSE LET rooted == IF cleaned[1] = "/" THEN cleaned ELSE << "/" >> \o cleaned
                  IN  << "/" >> \o JoinSlash(ResolveSegments(SplitSlash(rooted), << >>))

\* normalized.split('/').filter(Boolean)
Parts(normalized) == SelectSeq(SplitSlash(normalized), LAMBDA seg : Len(seg) > 0)

\* the names traverse walks for a path that readFile, stat or writeFile was
\* given: the method normalizes, traverse normalizes what it is handed
TraversedParts(path) == Parts(normalize(normalize(path)))

PathInit ==
    /\ pathIn = << >>
    /\ pathOut = RootPath

\* a method of the filesystem normalizes the path it was given
NormalizePath ==
    /\ \E t \in PathTexts :
        /\ pathIn' = t
        /\ pathOut' = normalize(t)
    /\ UNCHANGED otherThanPath

(***************************************************************************)
(* The virtual filesystem (PowerSyncFs) over its PackFileStore.             *)
(***************************************************************************)
NameD == << "d" >>

NameF == << "f" >>

NameP == << "p", ".", "p", "a", "c", "k" >>

\* PACK_SUFFIX
PackSuffix == << ".", "p", "a", "c", "k" >>

\* the path text of a list of names
Abs(parts) == << "/" >> \o JoinSlash(parts)

\* the paths the callers name
FsPaths ==
    { RootPath, Abs(<< NameD >>), Abs(<< NameF >>), Abs(<< NameP >>),
      Abs(<< NameD, NameP >>), Abs(<< NameD, NameF >>), Abs(<< NameF, NameP >>) }

\* the contents the callers write
FsContents == { << 1 >>, << 2, 3 >> }

Encodings == { "none", "latin1" }

\* String.prototype.endsWith
EndsWith(t, suffix) ==
    Len(t) >= Len(suffix) /\ SubSeq(t, Len(t) - Len(suffix) + 1, Len(t)) = suffix

\* no store takes the path
handlesNothing(path) == FALSE

\* PackFileStore.handles
handles(path) == EndsWith(path, PackSuffix)

IsPrefix(a, b) == Len(a) <= Len(b) /\ SubSeq(b, 1, Len(a)) = a

Front(parts) == SubSeq(parts, 1, Len(parts) - 1)

\* the node at q and everything below it
Below(tree, q) == { x \in DOMAIN tree : IsPrefix(q, x) }

\* Map.keys() of a directory's entries
EntryNames(tree, q) ==
    { x[Len(x)] : x \in { y \in DOMAIN tree : Len(y) = Len(q) + 1 /\ IsPrefix(q, y) } }

DirNode(now) ==
    [ type |-> "dir", hasData |-> FALSE, data |-> << >>, size |-> 0,
      mtimeMs |-> now, external |-> FALSE ]

InlineNode(bytes, now) ==
    [ type |-> "file", hasData |-> TRUE, data |-> bytes, size |-> Len(bytes),
      mtimeMs |-> now, external |-> FALSE ]

ExternalNode(bytes, now) ==
    [ type |-> "file", hasData |-> FALSE, data |-> << >>, size |-> Len(bytes),
      mtimeMs |-> now, external |-> TRUE ]

\* entries.set(name, node): what the name held before is dropped with all below it
SetEntry(tree, q, node) ==
    [ x \in ((DOMAIN tree) \ Below(tree, q)) \cup { q } |-> IF x = q THEN node ELSE tree[x] ]

\* entries.delete(name)
DeleteEntry(tree, q) == [ x \in (DOMAIN tree) \ Below(tree, q) |-> tree[x] ]

\* parent.mtimeMs = now
Touch(tree, q, now) ==
    IF q \in DOMAIN tree THEN [ tree EXCEPT ![q].mtimeMs = now ] ELSE tree

\* PowerSyncFs.traverse: the walk from the root; null when a name is missing
\* or a file stands where a directory is needed
traverse(tree, path) ==
    LET parts == Parts(normalize(path))
        found == \A k \in 0..Len(parts) :
                     /\ SubSeq(parts, 1, k) \in DOMAIN tree
                     /\ k < Len(parts) => tree[SubSeq(parts, 1, k)].type = "dir"
    IN  [ found |-> found, parts |-> parts ]

\* PowerSyncFs.getParent
getParent(tree, path) ==
    LET parts == Parts(normalize(path))
    IN  IF Len(parts) = 0 THEN [ code |-> "EEXIST", parent |-> << >>, at |-> << >> ]
        ELSE LET parentNode == traverse(tree, Abs(Front(parts)))
             IN  IF ~parentNode.found \/ tree[parentNode.parts].type # "dir"
                 THEN [ code |-> "ENOTDIR", parent |-> << >>, at |-> << >> ]
                 ELSE [ code |-> "ok", parent |-> parentNode.parts,
                        at |-> Append(parentNode.parts, parts[Len(parts)]) ]

\* what a method returned or threw
Res(op, path, path2, code) ==
    [ op |-> op, path |-> path, path2 |-> path2, code |-> code,
      data |-> << >>, size |-> 0, mtimeMs |-> 0, isFile |-> FALSE, names |-> {} ]

\* what a method leaves behind: the tree, the store and its result
Out(tree, store, res) == [ tree |-> tree, store |-> store, res |-> res ]

StorePut(store, key, entry) ==
    [ k \in (DOMAIN store) \cup { key } |-> IF k = key THEN entry ELSE store[k] ]

StoreDelete(store, key) == [ k \in (DOMAIN store) \ { key } |-> store[k] ]

\* PowerSyncFs.readFile
readFile(tree, store, path, encoding) ==
    LET normalized == normalize(path)
        node       == traverse(tree, normalized)
        fail(code) == Out(tree, store, Res("readFile", path, path, code))
    IN  IF ~node.found THEN fail("ENOENT")
        ELSE IF tree[node.parts].type # "file" THEN fail("EISDIR")
        ELSE IF tree[node.parts].external /\ normalized \notin DOMAIN store THEN fail("ENOENT")
        ELSE IF ~tree[node.parts].external /\ ~tree[node.parts].hasData THEN fail("ENOENT")
        ELSE LET view == IF tree[node.parts].external THEN store[normalized].data
                         ELSE tree[node.parts].data
                 read == IF tree[node.parts].external
                         THEN [ tree EXCEPT ![node.parts].size = Len(view) ]
                         ELSE tree
             IN  IF encoding = "none"
                 THEN Out(read, store, [ Res("readFile", path, path, "ok") EXCEPT !.data = view ])
                 ELSE Out(read, store,
                          Res("readFile", path, path, "ERR_INVALID_OPT_VALUE_ENCODING"))

\* PowerSyncFs.writeFile; the store stamps its entry at storeNow
writeFile(tree, store, path, bytes, now, storeNow) ==
    LET normalized == normalize(path)
        where      == getParent(tree, normalized)
        done       == [ Res("writeFile", path, path, "ok") EXCEPT !.data = bytes ]
    IN  IF where.code # "ok" THEN Out(tree, store, Res("writeFile", path, path, where.code))
        ELSE IF handles(normalized)
        THEN Out(Touch(SetEntry(tree, where.at, ExternalNode(bytes, now)), where.parent, now),
                 StorePut(store, normalized, [ data |-> bytes, mtimeMs |-> storeNow ]),
                 done)
        ELSE Out(Touch(SetEntry(tree, where.at, InlineNode(bytes, now)), where.parent, now),
                 store, done)

\* PowerSyncFs.unlink
unlink(tree, store, path, now) ==
    LET normalized == normalize(path)
        where      == getParent(tree, normalized)
        fail(code) == Out(tree, store, Res("unlink", path, path, code))
    IN  IF where.code # "ok" THEN fail(where.code)
        ELSE IF where.at \notin DOMAIN tree THEN fail("ENOENT")
        ELSE IF tree[where.at].type = "dir" THEN fail("EISDIR")
        ELSE Out(Touch(DeleteEntry(tree, where.at), where.parent, now),
                 IF tree[where.at].external THEN StoreDelete(store, normalized) ELSE store,
                 Res("unlink", path, path, "ok"))

\* PowerSyncFs.readdir
readdir(tree, store, path) ==
    LET node == traverse(tree, path)
    IN  IF ~node.found THEN Out(tree, store, Res("readdir", path, path, "ENOENT"))
        ELSE IF tree[node.parts].type # "dir"
        THEN Out(tree, store, Res("readdir", path, path, "ENOTDIR"))
        ELSE Out(tree, store,
                 [ Res("readdir", path, path, "ok") EXCEPT !.names = EntryNames(tree, node.parts) ])

\* the loop of mkdir over the parts from the k-th on
RECURSIVE MkdirWalk(_, _, _, _)
MkdirWalk(tree, parts, k, now) ==
    IF k > Len(parts) THEN [ tree |-> tree, code |-> "ok" ]
    ELSE LET q == SubSeq(parts, 1, k)
         IN  IF q \notin DOMAIN tree
             THEN MkdirWalk(SetEntry(tree, q, DirNode(now)), parts, k + 1, now)
             ELSE IF tree[q].type # "dir" THEN [ tree |-> tree, code |-> "ENOTDIR" ]
             ELSE MkdirWalk(tree, parts, k + 1, now)

\* PowerSyncFs.mkdir
mkdir(tree, store, path, now) ==
    LET walked == MkdirWalk(tree, Parts(normalize(path)), 1, now)
    IN  Out(walked.tree, store, Res("mkdir", path, path, walked.code))

\* PowerSyncFs.rmdir
rmdir(tree, store, path, now) ==
    LET where      == getParent(tree, normalize(path))
        fail(code) == Out(tree, store, Res("rmdir", path, path, code))
    IN  IF where.code # "ok" THEN fail(where.code)
        ELSE IF where.at \notin DOMAIN tree THEN fail("ENOENT")
        ELSE IF tree[where.at].type # "dir" THEN fail("ENOTDIR")
        ELSE IF EntryNames(tree, where.at) # {} THEN fail("ENOTEMPTY")
        ELSE Out(Touch(DeleteEntry(tree, where.at), where.parent, now), store,
                 Res("rmdir", path, path, "ok"))

\* the node moves with all below it; a node moved below itself leaves the tree
MoveEntries(tree, from, to) ==
    LET kept  == (DOMAIN tree) \ Below(tree, from)
        moved == IF IsPrefix(from, to) THEN {}
                 ELSE { to \o SubSeq(x, Len(from) + 1, Len(x)) : x \in Below(tree, from) }
    IN  [ x \in kept \cup moved |->
            IF x \in moved THEN tree[from \o SubSeq(x, Len(to) + 1, Len(x))] ELSE tree[x] ]

\* PowerSyncFs.rename; PackFileStore.move stamps the moved entry
rename(tree, store, oldPath, newPath, now) ==
    LET normalizedOld == normalize(oldPath)
        normalizedNew == normalize(newPath)
        from          == getParent(tree, normalizedOld)
        to            == getParent(tree, normalizedNew)
        fail(code)    == Out(tree, store, Res("rename", oldPath, newPath, code))
    IN  IF from.code # "ok" THEN fail(from.code)
        ELSE IF from.at \notin DOMAIN tree THEN fail("ENOENT")
        ELSE IF to.code # "ok" THEN fail(to.code)
        ELSE IF to.at \in DOMAIN tree THEN fail("EEXIST")
        ELSE IF tree[from.at].type = "file" /\ tree[from.at].external
                /\ normalizedOld \notin DOMAIN store
        THEN fail("ENOENT")
        ELSE Out(Touch(Touch(MoveEntries(tree, from.at, to.at), from.parent, now),
                       to.parent, now),
                 IF tree[from.at].type = "file" /\ tree[from.at].external
                 THEN StoreDelete(StorePut(store, normalizedNew,
                                           [ data |-> store[normalizedOld].data,
                                             mtimeMs |-> now ]),
                                  normalizedOld)
                 ELSE store,
                 Res("rename", oldPath, newPath, "ok"))

\* PowerSyncFs.stat (lstat calls it)
stat(tree, store, op, path) ==
    LET normalized == normalize(path)
        node       == traverse(tree, normalized)
    IN  IF ~node.found THEN Out(tree, store, Res(op, path, path, "ENOENT"))
        ELSE LET fresh ==
                     IF tree[node.parts].type = "file" /\ tree[node.parts].external
                        /\ normalized \in DOMAIN store
                     THEN [ tree EXCEPT ![node.parts].size = Len(store[normalized].data),
                                        ![node.parts].mtimeMs = store[normalized].mtimeMs ]
                     ELSE tree
             IN  Out(fresh, store,
                     [ Res(op, path, path, "ok") EXCEPT
                         !.size = IF fresh[node.parts].type = "file"
                                  THEN fresh[node.parts].size ELSE 0,
                         !.mtimeMs = fresh[node.parts].mtimeMs,
                         !.isFile = fresh[node.parts].type = "file" ])

\* PowerSyncFs.rm: a file is unlinked; a directory is emptied by rm on each
\* entry (recursive, or nothing to empty) and then removed by rmdir, which
\* fails on the root (getParent) and takes any other directory from its parent
rm(tree, store, path, recursive, now) ==
    LET node == traverse(tree, path)
    IN  IF ~node.found
        THEN Out(tree, store, Res("rm", path, path, IF recursive THEN "ok" ELSE "ENOENT"))
        ELSE IF tree[node.parts].type = "file"
        THEN [ unlink(tree, store, path, now) EXCEPT !.res.op = "rm" ]
        ELSE IF ~recursive /\ EntryNames(tree, node.parts) # {}
        THEN Out(tree, store, Res("rm", path, path, "ENOTEMPTY"))
        ELSE LET below == Below(tree, node.parts) \ { node.parts }
                 gone  == { Abs(x) : x \in { y \in below : tree[y].type = "file"
                                                             /\ tree[y].external } }
                 kept  == [ k \in (DOMAIN store) \ gone |-> store[k] ]
                 where == getParent(tree, normalize(path))
             IN  IF where.code # "ok"
                 THEN Out(IF below = {} THEN tree
                          ELSE Touch([ x \in (DOMAIN tree) \ below |-> tree[x] ],
                                     node.parts, now),
                          kept, Res("rm", path, path, where.code))
                 ELSE Out(Touch(DeleteEntry(tree, where.at), where.parent, now),
                          kept, Res("rm", path, path, "ok"))

FsInit ==
    /\ fsTree = [ x \in { << >> } |-> DirNode(0) ]
    /\ packEntries = EmptyMap
    /\ clock = 0
    /\ fsLast = Res("none", RootPath, RootPath, "ok")

\* a method has run: its tree, store and result take effect
Took(out) ==
    /\ fsTree' = out.tree
    /\ packEntries' = out.store
    /\ fsLast' = out.res
    /\ UNCHANGED otherThanFs

\* the clock after a method that changes the filesystem
Ticked == clock' = clock + 1

ReadFile ==
    /\ \E path \in FsPaths, encoding \in Encodings :
        Took(readFile(fsTree, packEntries, path, encoding))
    /\ UNCHANGED clock

WriteFile ==
    /\ clock < MaxWrites
    /\ \E path \in FsPaths, bytes \in FsContents, storeNow \in { clock, clock + 1 } :
        Took(writeFile(fsTree, packEntries, path, bytes, clock, storeNow))
    /\ Ticked

Unlink ==
    /\ clock < MaxWrites
    /\ \E path \in FsPaths : Took(unlink(fsTree, packEntries, path, clock))
    /\ Ticked

Readdir ==
    /\ \E path \in FsPaths : Took(readdir(fsTree, packEntries, path))
    /\ UNCHANGED clock

Mkdir ==
    /\ clock < MaxWrites
    /\ \E path \in FsPaths : Took(mkdir(fsTree, packEntries, path, clock))
    /\ Ticked

Rmdir ==
    /\ clock < MaxWrites
    /\ \E path \in FsPaths : Took(rmdir(fsTree, packEntries, path, clock))
    /\ Ticked

Rename ==
    /\ clock < MaxWrites
    /\ \E oldPath \in FsPaths, newPath \in FsPaths :
        Took(rename(fsTree, packEntries, oldPath, newPath, clock))
    /\ Ticked

Rm ==
    /\ clock < MaxWrites
    /\ \E path \in FsPaths, recursive \in BOOLEAN :
        Took(rm(fsTree, packEntries, path, recursive, clock))
    /\ Ticked

Stat ==
    /\ \E path \in FsPaths, op \in { "stat", "lstat" } :
        Took(stat(fsTree, packEntries, op, path))
    /\ UNCHANGED clock

(***************************************************************************)
(* Credentials: DaemonPowerSyncConnector.fetchCredentials and the stored    *)
(* credentials of syncPowerSyncRepository.                                  *)
(***************************************************************************)
\* how a credential provider can answer
ProviderOutcomes == { "throws", "null", "credentials" }

\* what loadStoredCredentials can give; not loaded stands for its rejection
StoredCredentials ==
    [ loaded : BOOLEAN, endpoint : BOOLEAN, token : BOOLEAN, expired : BOOLEAN ]

NoStored == [ loaded |-> FALSE, endpoint |-> FALSE, token |-> FALSE, expired |-> FALSE ]

\* every stored value passes for complete
HasCachedAlways(c) == TRUE

\* storedCredentials?.endpoint && storedCredentials?.token
HasCached(c) == c.loaded /\ c.endpoint /\ c.token

\* isCredentialExpired
isCredentialExpired(c) == c.expired

connVars == << connStatic, connHasProvider >>

fetchVars ==
    << notifiedMissingCredentials, fetchPc, lastProvider, providerCalls, fetchResult, fetches >>

syncVars == << syncPc, stored, syncOutcome, requests, syncs >>

\* no connector has been constructed yet
CredInit ==
    /\ connStatic = FALSE
    /\ connHasProvider = FALSE
    /\ notifiedMissingCredentials = FALSE
    /\ fetchPc = "unbuilt"
    /\ lastProvider = "none"
    /\ providerCalls = 0
    /\ fetchResult = "none"
    /\ fetches = 0
    /\ syncPc = "idle"
    /\ stored = NoStored
    /\ syncOutcome = "none"
    /\ requests = 0
    /\ syncs = 0

\* new DaemonPowerSyncConnector(options)
NewConnector ==
    /\ fetchPc = "unbuilt"
    /\ connStatic' \in BOOLEAN
    /\ connHasProvider' \in BOOLEAN
    /\ fetchPc' = "idle"
    /\ UNCHANGED << notifiedMissingCredentials, lastProvider, providerCalls, fetchResult,
                    fetches, syncVars, otherThanCred >>

\* fetchCredentials is called: the static pair is returned when set
FetchStart ==
    /\ fetchPc = "idle"
    /\ fetches < MaxFetches
    /\ providerCalls' = 0
    /\ lastProvider' = "none"
    /\ IF connStatic
       THEN /\ notifiedMissingCredentials' = FALSE
            /\ fetchResult' = "static"
            /\ fetchPc' = "done"
       ELSE /\ fetchResult' = "none"
            /\ fetchPc' = IF connHasProvider THEN "provider" ELSE "missing"
            /\ UNCHANGED notifiedMissingCredentials
    /\ UNCHANGED << fetches, connVars, syncVars, otherThanCred >>

\* await this.credentialsProvider(): a rejection is caught and logged
ProviderAnswers ==
    /\ fetchPc = "provider"
    /\ \E outcome \in ProviderOutcomes :
        /\ lastProvider' = outcome
        /\ providerCalls' = providerCalls + 1
        /\ IF outcome = "credentials"
           THEN /\ notifiedMissingCredentials' = FALSE
                /\ fetchResult' = "provided"
                /\ fetchPc' = "done"
           ELSE /\ fetchPc' = "missing"
                /\ UNCHANGED << notifiedMissingCredentials, fetchResult >>
    /\ UNCHANGED << fetches, connVars, syncVars, otherThanCred >>

\* the end of fetchCredentials: warn once, return null
FetchMissing ==
    /\ fetchPc = "missing"
    /\ notifiedMissingCredentials' = TRUE
    /\ fetchResult' = "null"
    /\ fetchPc' = "done"
    /\ UNCHANGED << lastProvider, providerCalls, fetches, connVars, syncVars, otherThanCred >>

\* the caller has the result
FetchReturn ==
    /\ fetchPc = "done"
    /\ fetchPc' = "idle"
    /\ fetches' = fetches + 1
    /\ UNCHANGED << notifiedMissingCredentials, lastProvider, providerCalls, fetchResult,
                    connVars, syncVars, otherThanCred >>

\* loadStoredCredentials(...).catch(() => null)
SyncLoad ==
    /\ syncPc = "idle"
    /\ syncs < MaxSyncs
    /\ \E c \in StoredCredentials :
        stored' = IF c.loaded THEN c ELSE NoStored
    /\ requests' = 0
    /\ syncOutcome' = "none"
    /\ syncPc' = "loaded"
    /\ UNCHANGED << syncs, connVars, fetchVars, otherThanCred >>

\* the two checks before anything is sent
SyncCheck ==
    /\ syncPc = "loaded"
    /\ IF ~HasCached(stored)
       THEN syncOutcome' = "missing" /\ syncPc' = "done"
       ELSE IF isCredentialExpired(stored)
       THEN syncOutcome' = "expired" /\ syncPc' = "done"
       ELSE syncPc' = "daemon" /\ UNCHANGED syncOutcome
    /\ UNCHANGED << stored, requests, syncs, connVars, fetchVars, otherThanCred >>

\* ensureDaemonReady
SyncEnsureDaemon ==
    /\ syncPc = "daemon"
    /\ requests' = requests + 1
    /\ \E up \in BOOLEAN :
        IF up THEN syncPc' = "summary" /\ UNCHANGED syncOutcome
        ELSE syncOutcome' = "unavailable" /\ syncPc' = "done"
    /\ UNCHANGED << stored, syncs, connVars, fetchVars, otherThanCred >>

\* client.getRepoSummary
SyncSummary ==
    /\ syncPc = "summary"
    /\ requests' = requests + 1
    /\ syncOutcome' = "ok"
    /\ syncPc' = "done"
    /\ UNCHANGED << stored, syncs, connVars, fetchVars, otherThanCred >>

\* the command returns or throws
SyncReturn ==
    /\ syncPc = "done"
    /\ syncPc' = "idle"
    /\ syncs' = syncs + 1
    /\ UNCHANGED << stored, syncOutcome, requests, connVars, fetchVars, otherThanCred >>

(***************************************************************************)
(* SupabaseWriter: applying one CRUD transaction.                           *)
(***************************************************************************)
\* TABLES
KnownTables == { "refs", "commits", "file_changes", "objects" }

\* TABLES[tableName].table
RemoteTable(t) ==
    CASE t = "refs" -> "raw_refs"
      [] t = "commits" -> "raw_commits"
      [] t = "file_changes" -> "raw_file_changes"
      [] t = "objects" -> "raw_objects"

\* a row without a string id
NoRowId == "none"

\* the entries a transaction can hold
CrudEntries ==
    [ table : { "refs", "misc" }, op : { "PUT", "DELETE" }, id : { "r1", "r2", NoRowId } ]

CrudTransactions == UNION { [ 1..n -> CrudEntries ] : n \in 0..MaxOps }

\* how Supabase answers the calls of one transaction
WriterFaults == { "none", "upsert", "delete" }

\* the keys of a Map in insertion order: each value once, where it came first
RECURSIVE KeysInOrder(_)
KeysInOrder(sq) ==
    IF Len(sq) = 0 THEN << >>
    ELSE LET before == KeysInOrder(SubSeq(sq, 1, Len(sq) - 1))
             k      == sq[Len(sq)]
         IN  IF \E i \in 1..Len(before) : before[i] = k THEN before ELSE Append(before, k)

\* SupabaseWriter.buildRow: the id of the row, or none
buildRow(entry) == entry.id

IdsOf(entries) == [ i \in 1..Len(entries) |-> buildRow(entries[i]) ]

HasRow(entry) == buildRow(entry) # NoRowId

IsDelete(entry) == HasRow(entry) /\ entry.op = "DELETE"

IsUpsert(entry) == HasRow(entry) /\ entry.op # "DELETE"

\* Array.from(upserts.values()) of one table
upsertRows(entries) == KeysInOrder(IdsOf(SelectSeq(entries, IsUpsert)))

\* Array.from(deletes.values()) of one table
deleteRows(entries) == KeysInOrder(IdsOf(SelectSeq(entries, IsDelete)))

SeqRange(sq) == { sq[i] : i \in 1..Len(sq) }

\* the loop of applyTransaction over the grouped tables from the k-th on
RECURSIVE ApplyTables(_, _, _, _, _)
ApplyTables(tx, tables, k, fault, acc) ==
    IF k > Len(tables) THEN [ acc EXCEPT !.result = "ok" ]
    ELSE IF tables[k] \notin KnownTables THEN ApplyTables(tx, tables, k + 1, fault, acc)
    ELSE LET entries == SelectSeq(tx, LAMBDA e : e.table = tables[k])
             ups     == upsertRows(entries)
             dels    == deleteRows(entries)
             table   == RemoteTable(tables[k])
             upserted ==
                 IF Len(ups) = 0 THEN acc
                 ELSE [ acc EXCEPT
                          !.upserts = Append(@, [ table |-> table, ids |-> ups ]),
                          !.rows = IF fault = "upsert" THEN @
                                   ELSE @ \cup { << table, id >> : id \in SeqRange(ups) } ]
             deleted ==
                 IF Len(dels) = 0 THEN upserted
                 ELSE [ upserted EXCEPT
                          !.deletes = Append(@, [ table |-> table, ids |-> dels ]),
                          !.rows = IF fault = "delete" THEN @
                                   ELSE @ \ { << table, id >> : id \in SeqRange(dels) } ]
         IN  IF Len(ups) > 0 /\ fault = "upsert"
             THEN [ upserted EXCEPT !.result = "upsert failed" ]
             ELSE IF Len(dels) > 0 /\ fault = "delete"
             THEN [ deleted EXCEPT !.result = "delete failed" ]
             ELSE ApplyTables(tx, tables, k + 1, fault, deleted)

\* SupabaseWriter.applyTransaction
applyTransaction(tx, rows, fault) ==
    ApplyTables(tx, KeysInOrder([ i \in 1..Len(tx) |-> tx[i].table ]), 1, fault,
                [ upserts |-> << >>, deletes |-> << >>, rows |-> rows, result |-> "ok" ])

\* the explorer's connectors: part_017 with and without a Supabase client, part_016
Connectors == { "function", "no client", "local" }

\* what can throw in one turn of uploadData
BatchFaults == { "none", "invoke", "complete" }

NoBatch ==
    [ connector |-> "none", taken |-> FALSE, operations |-> 0, sent |-> FALSE,
      applied |-> FALSE, completed |-> FALSE, haveMore |-> FALSE ]

WriterInit ==
    /\ writerTx = << >>
    /\ upsertCalls = << >>
    /\ deleteCalls = << >>
    /\ remoteRows = {}
    /\ writerResult = "none"
    /\ txs = 0
    /\ uploadPc = "idle"
    /\ writerCompleted = FALSE
    /\ batchPc = "idle"
    /\ batchLast = NoBatch

\* SupabaseWriter.uploadPending is called (the daemon's writer and the
\* explorer's connector are different programs: a behaviour follows one)
UploadPending ==
    /\ batchPc = "idle"
    /\ uploadPc # "running"
    /\ txs < MaxTxs
    /\ uploadPc' = "running"
    /\ UNCHANGED << writerTx, upsertCalls, deleteCalls, remoteRows, writerResult, txs,
                    writerCompleted, batchPc, batchLast >>
    /\ UNCHANGED otherThanWriter

\* tx.complete() is called whatever applyTransaction did
completeAlways(result) == TRUE

\* tx.complete() follows applyTransaction when that did not throw
completeAfter(result) == result = "ok"

\* uploadPending takes the next transaction, applies it and completes it;
\* when applying throws the call ends with the error
ApplyTransaction ==
    /\ uploadPc = "running"
    /\ txs < MaxTxs
    /\ \E tx \in CrudTransactions, fault \in WriterFaults :
        LET applied == applyTransaction(tx, remoteRows, fault)
        IN  /\ writerTx' = tx
            /\ upsertCalls' = applied.upserts
            /\ deleteCalls' = applied.deletes
            /\ remoteRows' = applied.rows
            /\ writerResult' = applied.result
            /\ writerCompleted' = completeAfter(applied.result)
            /\ uploadPc' = IF applied.result = "ok" THEN "running" ELSE "thrown"
    /\ txs' = txs + 1
    /\ UNCHANGED << batchPc, batchLast >>
    /\ UNCHANGED otherThanWriter

\* getNextCrudTransaction gives nothing: uploadPending returns
UploadDrained ==
    /\ uploadPc = "running"
    /\ uploadPc' = "returned"
    /\ UNCHANGED << writerTx, upsertCalls, deleteCalls, remoteRows, writerResult, txs,
                    writerCompleted, batchPc, batchLast >>
    /\ UNCHANGED otherThanWriter

\* the explorer's Connector.uploadData is called: with the Supabase function,
\* without a Supabase client, or the connector that has no upload handler
UploadData ==
    /\ uploadPc = "idle"
    /\ batchPc \in { "idle", "returned", "thrown" }
    /\ \E connector \in Connectors :
        /\ batchPc' = IF connector = "no client" THEN "returned" ELSE "running"
        /\ batchLast' = [ NoBatch EXCEPT !.connector = connector ]
    /\ UNCHANGED << writerTx, upsertCalls, deleteCalls, remoteRows, writerResult, txs,
                    uploadPc, writerCompleted >>
    /\ UNCHANGED otherThanWriter

\* one turn of uploadData's loop over a batch that getCrudBatch gave
UploadBatch ==
    /\ batchPc = "running"
    /\ \E operations \in 0..MaxOps, fault \in BatchFaults, haveMore \in BOOLEAN :
        LET sent      == operations > 0 /\ batchLast.connector = "function"
            applied   == sent /\ fault # "invoke"
            completed == fault # "complete" /\ (operations = 0 \/ applied)
        IN  /\ batchLast' = [ connector |-> batchLast.connector, taken |-> TRUE,
                              operations |-> operations, sent |-> sent,
                              applied |-> applied, completed |-> completed,
                              haveMore |-> haveMore ]
            /\ batchPc' = IF ~completed THEN "thrown"
                          ELSE IF haveMore THEN "running" ELSE "returned"
    /\ UNCHANGED << writerTx, upsertCalls, deleteCalls, remoteRows, writerResult, txs,
                    uploadPc, writerCompleted >>
    /\ UNCHANGED otherThanWriter

\* getCrudBatch gives nothing, or rejects: uploadData returns
UploadNoBatch ==
    /\ batchPc = "running"
    /\ batchPc' = "returned"
    /\ UNCHANGED << writerTx, upsertCalls, deleteCalls, remoteRows, writerResult, txs,
                    uploadPc, writerCompleted, batchLast >>
    /\ UNCHANGED otherThanWriter

(***************************************************************************)
(* Daemon authentication: DaemonAuthManager and DeviceAuthCoordinator.      *)
(***************************************************************************)
\* challengeTtlMs: the default 5 * 60_000 ms, counted in clock units of 150 s
challengeTtlMs == 2

\* what generateChallengeId can give
ChallengeIds == { "c1", "c2" }

Tokens == { "t1", "t2" }

NoToken == "no token"

NoChallenge == "no challenge"

NoEndpoint == "no endpoint"

Endpoints == { NoEndpoint, "e1" }

\* the challenge stays in the map
DeleteNothing(map, id) == map

\* challenges.delete(challengeId)
DeleteChallenge(map, id) == [ c \in (DOMAIN map) \ { id } |-> map[c] ]

\* every challenge counts as live
ExpiredNever(now, record) == FALSE

\* Date.now() > challenge.expiresAt
Expired(now, record) == now > record.expiresAt

\* no endpoint is ever found
ResolveEndpointNone(endpoint, hint, default) == NoEndpoint

\* options.endpoint ?? challenge.endpointHint ?? getDefaultEndpoint()
ResolveEndpoint(endpoint, hint, default) ==
    IF endpoint # NoEndpoint THEN endpoint
    ELSE IF hint # NoEndpoint THEN hint
    ELSE default

\* cleanupExpiredChallenges
cleanupExpiredChallenges(held, now) ==
    [ id \in { c \in DOMAIN held : ~Expired(now, held[c]) } |-> held[id] ]

\* waiting calls are left waiting
ResolveNone(waiting, token) == waiting

\* the waiting calls resolve with the credentials
ResolveWaiters(waiting, token) ==
    [ i \in 1..Len(waiting) |->
        IF waiting[i].pending THEN [ waiting[i] EXCEPT !.pending = FALSE, !.token = token ]
        ELSE waiting[i] ]

\* what a call left behind
DevRes(op, id, token, result) ==
    [ op |-> op, id |-> id, token |-> token, result |-> result, known |-> FALSE,
      createdAt |-> 0, at |-> devNow, endpoint |-> NoEndpoint ]

AuthInit ==
    /\ authBuilt = FALSE
    /\ authDefaultEndpoint = NoEndpoint
    /\ authStatus = "auth_required"
    /\ authToken = NoToken
    /\ authContext = NoChallenge
    /\ waiters = << >>
    /\ challenges = EmptyMap
    /\ spent = {}
    /\ devNow = 0
    /\ devLast = [ op |-> "none", id |-> NoChallenge, token |-> NoToken, result |-> FALSE,
                   known |-> FALSE, createdAt |-> 0, at |-> 0, endpoint |-> NoEndpoint ]

\* DaemonAuthManager.create and new DeviceAuthCoordinator
CreateAuth ==
    /\ ~authBuilt
    /\ authBuilt' = TRUE
    /\ authDefaultEndpoint' \in Endpoints
    /\ UNCHANGED << authStatus, authToken, authContext, waiters, challenges, devNow, devLast,
                    spent, otherThanAuth >>

\* time passes
DevTick ==
    /\ authBuilt
    /\ devNow < MaxNow
    /\ devNow' = devNow + 1
    /\ UNCHANGED << authBuilt, authDefaultEndpoint, authStatus, authToken, authContext,
                    waiters, challenges, devLast, spent, otherThanAuth >>

\* authManager.setPending / setError / logout: no credentials are held
SetStatus(status, context) ==
    /\ authStatus' = status
    /\ authToken' = NoToken
    /\ authContext' = context
    /\ UNCHANGED waiters

\* authManager.setReadyCredentials
SetReady(token) ==
    /\ authStatus' = "ready"
    /\ authToken' = token
    /\ authContext' = NoChallenge
    /\ waiters' = ResolveWaiters(waiters, token)

\* DeviceAuthCoordinator.begin
DeviceBegin ==
    /\ authBuilt
    /\ \E id \in ChallengeIds, hint \in Endpoints :
        /\ challenges' = Put(cleanupExpiredChallenges(challenges, devNow), id,
                             [ createdAt |-> devNow, expiresAt |-> devNow + challengeTtlMs,
                               endpointHint |-> hint ])
        /\ SetStatus("pending", id)
        /\ spent' = spent \ { id }
        /\ devLast' = [ DevRes("begin", id, NoToken, TRUE) EXCEPT !.endpoint = hint ]
    /\ UNCHANGED << authBuilt, authDefaultEndpoint, devNow, otherThanAuth >>

\* DeviceAuthCoordinator.complete
DeviceComplete ==
    /\ authBuilt
    /\ \E id \in ChallengeIds, token \in Tokens, endpoint \in Endpoints :
        LET known == id \in DOMAIN challenges
            res   == [ DevRes("complete", id, token, FALSE) EXCEPT
                         !.known = known,
                         !.createdAt = IF known THEN challenges[id].createdAt ELSE 0,
                         !.endpoint = endpoint ]
            resolved ==
                ResolveEndpoint(endpoint, challenges[id].endpointHint, authDefaultEndpoint)
        IN  IF ~known
            THEN /\ SetStatus("error", id)
                 /\ devLast' = res
                 /\ UNCHANGED << challenges, spent >>
            ELSE IF Expired(devNow, challenges[id])
            THEN /\ challenges' = DeleteChallenge(challenges, id)
                 /\ SetStatus("error", id)
                 /\ devLast' = res
                 /\ UNCHANGED spent
            ELSE IF resolved = NoEndpoint
            THEN /\ SetStatus("error", id)
                 /\ devLast' = res
                 /\ UNCHANGED << challenges, spent >>
            ELSE /\ challenges' = DeleteChallenge(challenges, id)
                 /\ SetReady(token)
                 /\ spent' = spent \cup { id }
                 /\ devLast' = [ res EXCEPT !.result = TRUE ]
    /\ UNCHANGED << authBuilt, authDefaultEndpoint, devNow, otherThanAuth >>

\* authManager.waitForCredentials: resolved at once when credentials are held
WaitForCredentials ==
    /\ authBuilt
    /\ Len(waiters) < MaxWaiters
    /\ waiters' = Append(waiters, [ pending |-> authStatus # "ready", token |-> authToken,
                                    waited |-> authStatus # "ready" ])
    /\ devLast' = DevRes("waitForCredentials", NoChallenge, authToken, authStatus = "ready")
    /\ UNCHANGED << authBuilt, authDefaultEndpoint, authStatus, authToken, authContext,
                    challenges, devNow, spent, otherThanAuth >>

\* authManager.setReadyCredentials called by a guest login
SetReadyCredentials ==
    /\ authBuilt
    /\ \E token \in Tokens :
        /\ SetReady(token)
        /\ devLast' = DevRes("setReadyCredentials", NoChallenge, token, TRUE)
    /\ UNCHANGED << authBuilt, authDefaultEndpoint, challenges, devNow, spent, otherThanAuth >>

\* authManager.logout
Logout ==
    /\ authBuilt
    /\ SetStatus("auth_required", NoChallenge)
    /\ devLast' = DevRes("logout", NoChallenge, NoToken, TRUE)
    /\ UNCHANGED << authBuilt, authDefaultEndpoint, challenges, devNow, spent, otherThanAuth >>

(***************************************************************************)
(* The daemon HTTP server's routing and the StreamSubscriptionManager.      *)
(***************************************************************************)
HttpMethods == { "GET", "POST", "DELETE" }

\* the route createDaemonServer takes for a request; unmatched when none does
RouteOf(method, path) ==
    CASE method = "GET" /\ path \in { "/health", "/healthz", "/status" } -> "status"
      [] method = "GET" /\ path = "/auth/status" -> "authStatus"
      [] method = "POST" /\ path = "/auth/logout" -> "authLogout"
      [] method = "POST" /\ path = "/auth/guest" -> "authGuest"
      [] method = "POST" /\ path = "/auth/device" -> "authDevice"
      [] method = "POST" /\ path = "/shutdown" -> "shutdown"
      [] OTHER -> "unmatched"

\* the status of a request no route matched
UnmatchedStatus(method) == IF method = "GET" THEN 404 ELSE 405

StreamCallers == { "k1", "k2" }

\* the raw ids callers pass
RawStreamIds == { << "s" >>, << "t" >>, << " " >>, << " ", "s" >> }

StreamIdLists == UNION { [ 1..n -> RawStreamIds ] : n \in 1..MaxIds }

\* the id lists of the HTTP requests
HttpIdLists == { << << "s" >> >>, << << "s" >>, << " " >> >> }

\* the ids after trim() that are not empty
StreamNames == { Trim(raw) : raw \in RawStreamIds } \ { << >> }

\* unsubscribe() on the subscriptions the active map held for the ids
Unsubscribed(count, ids) ==
    [ id \in StreamNames |-> IF id \in ids THEN count[id] - 1 ELSE count[id] ]

IdleCaller ==
    [ pc |-> "idle", op |-> "none", cur |-> << >>, todo |-> << >>,
      added |-> << >>, alreadyActive |-> << >> ]

StreamRes(op, ids, a, b) == [ op |-> op, first |-> a, second |-> b ]

\* the loop of add from the head of todo up to its next await or its end
RECURSIVE AddRun(_, _, _, _, _)
AddRun(want, act, todo, added, already) ==
    IF Len(todo) = 0
    THEN [ desired |-> want, pc |-> "done", cur |-> << >>, todo |-> << >>,
           added |-> added, alreadyActive |-> already ]
    ELSE LET streamId == Trim(Head(todo))
         IN  IF Len(streamId) = 0 THEN AddRun(want, act, Tail(todo), added, already)
             ELSE IF streamId \in act
             THEN AddRun(want \cup { streamId }, act, Tail(todo), added,
                         Append(already, streamId))
             ELSE [ desired |-> want \cup { streamId }, pc |-> "subscribing",
                    cur |-> streamId, todo |-> Tail(todo),
                    added |-> added, alreadyActive |-> already ]

\* the loop of remove: it has no await
RECURSIVE RemoveRun(_, _, _, _, _)
RemoveRun(want, act, todo, removed, notFound) ==
    IF Len(todo) = 0
    THEN [ desired |-> want, active |-> act, removed |-> removed, notFound |-> notFound ]
    ELSE LET streamId == Trim(Head(todo))
         IN  IF Len(streamId) = 0 THEN RemoveRun(want, act, Tail(todo), removed, notFound)
             ELSE IF streamId \notin act
             THEN RemoveRun(want \ { streamId }, act, Tail(todo), removed,
                            Append(notFound, streamId))
             ELSE RemoveRun(want \ { streamId }, act \ { streamId }, Tail(todo),
                            Append(removed, streamId), notFound)

\* the orders in which a Set can list its members
Orders(set) ==
    { sq \in [ 1..Cardinality(set) -> set ] : \A i, j \in 1..Cardinality(set) :
                                                   sq[i] = sq[j] => i = j }

StreamInit ==
    /\ desired = {}
    /\ active = {}
    /\ caller = [ k \in StreamCallers |-> IdleCaller ]
    /\ streamLast = StreamRes("none", << >>, << >>, << >>)
    /\ streamCalls = 0
    /\ httpLast = [ method |-> "none", path |-> "none", status |-> 0, ids |-> << >>,
                    route |-> "none" ]
    /\ live = [ id \in StreamNames |-> 0 ]

\* add runs on from where it stands, to its next await or to its return
AddOn(k, op, ids, run) ==
    /\ desired' = run.desired
    /\ IF run.pc = "done"
       THEN /\ caller' = [ caller EXCEPT ![k] = IdleCaller ]
            /\ streamLast' = StreamRes(op, ids, run.added, run.alreadyActive)
       ELSE /\ caller' = [ caller EXCEPT ![k] =
                             [ pc |-> "subscribing", op |-> op, cur |-> run.cur,
                               todo |-> run.todo, added |-> run.added,
                               alreadyActive |-> run.alreadyActive ] ]
            /\ UNCHANGED streamLast

\* StreamSubscriptionManager.add is called
StreamAdd ==
    /\ streamCalls < MaxStreamCalls
    /\ \E k \in StreamCallers, ids \in StreamIdLists :
        /\ caller[k].pc = "idle"
        /\ AddOn(k, "add", ids, AddRun(desired, active, ids, << >>, << >>))
    /\ streamCalls' = streamCalls + 1
    /\ UNCHANGED << active, httpLast, live, otherThanStreams >>

\* await stream.subscribe() returns or throws
StreamSubscribed ==
    /\ \E k \in StreamCallers, ok \in BOOLEAN :
        /\ caller[k].pc = "subscribing"
        /\ active' = IF ok THEN active \cup { caller[k].cur } ELSE active
        /\ live' = IF ok THEN [ live EXCEPT ![caller[k].cur] = @ + 1 ] ELSE live
        /\ AddOn(k, caller[k].op, << >>,
                 AddRun(desired, active', caller[k].todo,
                        IF ok THEN Append(caller[k].added, caller[k].cur)
                        ELSE caller[k].added,
                        IF ok THEN caller[k].alreadyActive
                        ELSE Append(caller[k].alreadyActive, caller[k].cur)))
    /\ UNCHANGED << streamCalls, httpLast, otherThanStreams >>

\* StreamSubscriptionManager.remove
StreamRemove ==
    /\ streamCalls < MaxStreamCalls
    /\ \E ids \in StreamIdLists :
        LET run == RemoveRun(desired, active, ids, << >>, << >>)
        IN  /\ desired' = run.desired
            /\ active' = run.active
            /\ live' = Unsubscribed(live, active \ run.active)
            /\ streamLast' = StreamRes("remove", ids, run.removed, run.notFound)
    /\ streamCalls' = streamCalls + 1
    /\ UNCHANGED << caller, httpLast, otherThanStreams >>

\* StreamSubscriptionManager.resubscribeAll: closeAll clears active and awaits
StreamResubscribe ==
    /\ streamCalls < MaxStreamCalls
    /\ \E k \in StreamCallers :
        /\ caller[k].pc = "idle"
        /\ caller' = [ caller EXCEPT ![k] = [ IdleCaller EXCEPT !.pc = "closing",
                                                            !.op = "resubscribeAll" ] ]
    /\ active' = {}
    /\ live' = Unsubscribed(live, active)
    /\ streamCalls' = streamCalls + 1
    /\ UNCHANGED << desired, streamLast, httpLast, otherThanStreams >>

\* closeAll has returned: add(Array.from(desired))
StreamClosed ==
    /\ \E k \in StreamCallers :
        /\ caller[k].pc = "closing"
        /\ IF desired = {}
           THEN /\ caller' = [ caller EXCEPT ![k] = IdleCaller ]
                /\ streamLast' = StreamRes("resubscribeAll", << >>, << >>, << >>)
                /\ UNCHANGED desired
           ELSE \E ids \in Orders(desired) :
                    AddOn(k, "resubscribeAll", ids, AddRun(desired, active, ids, << >>, << >>))
    /\ UNCHANGED << active, streamCalls, httpLast, live, otherThanStreams >>

\* a request for /streams reaches createDaemonServer
HttpStreams ==
    /\ \E method \in HttpMethods, ids \in HttpIdLists :
        /\ RouteOf(method, "/streams") = "unmatched"
        /\ httpLast' = [ method |-> method, path |-> "/streams",
                         status |-> UnmatchedStatus(method), ids |-> ids,
                         route |-> RouteOf(method, "/streams") ]
    /\ UNCHANGED << desired, active, caller, streamLast, streamCalls, live, otherThanStreams >>

(***************************************************************************)
(* The auth routes of the daemon HTTP server.                               *)
(***************************************************************************)
AuthPaths == { "/auth/guest", "/auth/device", "/auth/logout" }

AuthRoutes == { "authGuest", "authDevice", "authLogout" }

\* status of an AuthStatusPayload; "other" stands for any other text
AuthStatuses == { "ready", "pending", "auth_required", "error", "other" }

\* httpStatus of a DaemonAuthResponse: absent, or a number
HttpStatusGiven ==
    { [ given |-> FALSE, value |-> 0 ] }
        \cup [ given : { TRUE }, value : { -1, 0, 200, 201, 400, 429 } ]

AuthPayloads == [ status : AuthStatuses, httpStatus : HttpStatusGiven ]

NoPayload == [ status |-> "other", httpStatus |-> [ given |-> FALSE, value |-> 0 ] ]

\* how a handler can end: it is not configured, returns nothing, throws, or
\* returns a payload
HandlerOutcomes == { "absent", "nothing", "throws", "payload" }

\* the route's default status
RouteFallback(route) == IF route = "authDevice" THEN 202 ELSE 200

\* the status of the payload alone decides
resolveByStatusOnly(payload, fallback) ==
    CASE payload.status = "pending" -> 202
      [] payload.status = "auth_required" -> 401
      [] payload.status = "error" -> 400
      [] OTHER -> fallback

\* resolveAuthStatusCode
resolveAuthStatusCode(payload, fallback) ==
    IF payload.httpStatus.given /\ payload.httpStatus.value > 0
    THEN payload.httpStatus.value
    ELSE CASE payload.status = "ready" -> fallback
           [] payload.status = "pending" -> 202
           [] payload.status = "auth_required" -> 401
           [] payload.status = "error" -> 400
           [] OTHER -> fallback

\* the response to a request on an auth route
AuthResponse(route, outcome, payload) ==
    CASE outcome = "absent" -> 503
      [] outcome = "throws" -> 500
      [] outcome = "nothing" -> 204
      [] OTHER -> resolveAuthStatusCode(payload, RouteFallback(route))

ServerInit ==
    /\ authHttp = [ method |-> "none", path |-> "none", route |-> "none",
                    outcome |-> "none", payload |-> NoPayload, status |-> 0 ]
    /\ authRequests = 0

\* a request for /auth/guest, /auth/device or /auth/logout is answered
HttpAuth ==
    /\ authRequests < MaxRequests
    /\ \E method \in HttpMethods, path \in AuthPaths :
        LET route == RouteOf(method, path)
        IN  IF route = "unmatched"
            THEN authHttp' = [ method |-> method, path |-> path, route |-> route,
                               outcome |-> "none", payload |-> NoPayload,
                               status |-> UnmatchedStatus(method) ]
            ELSE \E outcome \in HandlerOutcomes, given \in AuthPayloads :
                    LET payload == IF outcome = "payload" THEN given ELSE NoPayload
                    IN  authHttp' = [ method |-> method, path |-> path, route |-> route,
                                      outcome |-> outcome, payload |-> payload,
                                      status |-> AuthResponse(route, outcome, payload) ]
    /\ authRequests' = authRequests + 1
    /\ UNCHANGED otherThanServer

(***************************************************************************)
(* The explorer's vault (vault-context.tsx): a passphrase verifier kept in *)
(* local storage per user, and the provider's state.  Of a vault record    *)
(* only the verifier is kept; version and createdAt decide nothing.        *)
(***************************************************************************)

\* a character that is half of a surrogate pair and stands alone
LoneSurrogate == "<D800>"

PassChars == { "a", "b", LoneSurrogate }

RECURSIVE TextsUpTo(_, _)
TextsUpTo(chars, n) ==
    IF n = 0 THEN { << >> }
    ELSE LET shorter == TextsUpTo(chars, n - 1)
         IN  shorter \cup { Append(t, c) : t \in shorter, c \in chars }

Passphrases == TextsUpTo(PassChars, MaxPassLen)

VaultUsers == { "u1", "u2" }

NoUser == "none"

\* null where a verifier may stand
NoVerifier == << "null" >>

NoRecord == [ present |-> FALSE, verifier |-> NoVerifier ]

RecordOf(verifier) == [ present |-> TRUE, verifier |-> verifier ]

\* what the window offers: crypto.subtle, btoa, localStorage
Windows == [ subtle : BOOLEAN, btoa : BOOLEAN, storage : BOOLEAN ]

\* a string is truthy unless it is null or empty
Truthy(text) == text # NoVerifier /\ text # << >>

\* encodeURIComponent does not throw
Encodable(p) == \A i \in 1..Len(p) : p[i] # LoneSurrogate

\* TextEncoder.encode: UTF-8, a lone surrogate becomes U+FFFD
RECURSIVE TextEncode(_)
TextEncode(p) ==
    IF p = << >> THEN << >>
    ELSE (IF Head(p) = LoneSurrogate THEN << 239, 191, 189 >>
          ELSE << CharCode(Head(p)) >>) \o TextEncode(Tail(p))

\* byte.toString(16).padStart(2, '0'), joined
RECURSIVE HexOf(_)
HexOf(bytes) ==
    IF bytes = << >> THEN << >>
    ELSE << HexDigits[(Head(bytes) \div 16) + 1], HexDigits[(Head(bytes) % 16) + 1] >>
         \o HexOf(Tail(bytes))

\* crypto.subtle.digest('SHA-256', data) in hex: 64 digits that the model
\* stands for by an injective text of the hashed bytes; no passphrase of
\* the model is 64 characters long
Sha256Hex(bytes) == << "sha256:" >> \o HexOf(bytes)

\* hashPassphrase: WebCrypto, else btoa of the UTF-8 bytes (encodeURIComponent
\* throws on a lone surrogate and the catch falls through), else the
\* passphrase as it is
hashPassphrase(window, passphrase) ==
    IF window.subtle THEN Sha256Hex(TextEncode(passphrase))
    ELSE IF window.btoa /\ Encodable(passphrase)
    THEN Base64Encode(TextEncode(passphrase))
    ELSE passphrase

NoCall == [ op |-> "none", passphrase |-> << >>, record |-> NoRecord, key |-> NoUser ]

VaultRes(op, passphrase, verifier, result) ==
    [ op |-> op, passphrase |-> passphrase, verifier |-> verifier, result |-> result,
      key |-> IF op = "createVault" /\ result = "ok" THEN vaultCall.key ELSE NoUser ]

LoadingState ==
    [ status |-> "loading", record |-> NoRecord, hasVault |-> FALSE,
      activeVerifier |-> NoVerifier ]

NeedsSetupState ==
    [ status |-> "needsSetup", record |-> NoRecord, hasVault |-> FALSE,
      activeVerifier |-> NoVerifier ]

\* the storage load effect: the next state and the next storage
LoadEffect(prev, user, storage, window) ==
    IF user = NoUser
    THEN [ state |-> [ prev EXCEPT !.status = "loading", !.record = NoRecord,
                                   !.hasVault = FALSE, !.activeVerifier = NoVerifier ],
           storage |-> storage ]
    ELSE IF ~window.storage
    THEN [ state |-> [ status |-> "locked", record |-> NoRecord, hasVault |-> TRUE,
                       activeVerifier |-> NoVerifier ],
           storage |-> storage ]
    ELSE IF storage[user] = NoVerifier
    THEN [ state |-> NeedsSetupState, storage |-> storage ]
    ELSE IF ~Truthy(storage[user])
    THEN [ state |-> NeedsSetupState,
           storage |-> [ storage EXCEPT ![user] = NoVerifier ] ]
    ELSE LET record == RecordOf(storage[user])
             sameVault == prev.record.present /\ prev.record.verifier = record.verifier
             hasActiveUnlock ==
                 Truthy(prev.activeVerifier) /\ prev.activeVerifier = record.verifier
         IN  [ state |->
                 IF hasActiveUnlock
                 THEN [ status |-> "unlocked", record |-> record, hasVault |-> TRUE,
                        activeVerifier |-> prev.activeVerifier ]
                 ELSE [ status |-> "locked", record |-> record, hasVault |-> TRUE,
                        activeVerifier |->
                            IF sameVault THEN prev.activeVerifier ELSE NoVerifier ],
               storage |-> storage ]

VaultInit ==
    /\ vaultMounted = FALSE
    /\ vaultRequired = TRUE
    /\ vaultWindow = [ subtle |-> TRUE, btoa |-> TRUE, storage |-> TRUE ]
    /\ vaultUser = NoUser
    /\ vaultState = LoadingState
    /\ vaultStorage = [ u \in VaultUsers |-> NoVerifier ]
    /\ vaultCall = NoCall
    /\ vaultLast = VaultRes("none", << >>, NoVerifier, "none")

\* the provider mounts in some window, signed out; the effect runs once
VaultProvider ==
    /\ ~vaultMounted
    /\ \E required \in BOOLEAN, window \in Windows :
          /\ vaultRequired' = required
          /\ vaultWindow' = window
          /\ vaultState' =
                IF required THEN LoadingState
                ELSE [ LoadingState EXCEPT !.status = "unlocked" ]
    /\ vaultMounted' = TRUE
    /\ vaultLast' = VaultRes("mount", << >>, NoVerifier, "ok")
    /\ UNCHANGED << vaultUser, vaultStorage, vaultCall >>
    /\ UNCHANGED otherThanVault

\* the session changes to another user or to none; the effect runs
AuthChange ==
    /\ vaultMounted
    /\ \E user \in (VaultUsers \cup { NoUser }) \ { vaultUser } :
          /\ vaultUser' = user
          /\ IF vaultRequired
             THEN LET effect == LoadEffect(vaultState, user, vaultStorage, vaultWindow)
                  IN  /\ vaultState' = effect.state
                      /\ vaultStorage' = effect.storage
             ELSE UNCHANGED << vaultState, vaultStorage >>
    /\ vaultLast' = VaultRes("effect", << >>, NoVerifier, "ok")
    /\ UNCHANGED << vaultMounted, vaultRequired, vaultWindow, vaultCall >>
    /\ UNCHANGED otherThanVault

\* createVault up to its await
CreateVault ==
    /\ vaultMounted /\ vaultCall = NoCall
    /\ \E passphrase \in Passphrases :
          LET refused ==
                  IF ~vaultRequired THEN "skipped"
                  ELSE IF vaultUser = NoUser
                  THEN "Vault is unavailable until authentication completes."
                  ELSE IF ~vaultWindow.storage
                  THEN "Local storage is not available."
                  ELSE IF vaultState.record.present
                  THEN "Vault already exists."
                  ELSE "no"
          IN  IF refused # "no"
              THEN /\ vaultCall' = NoCall
                   /\ vaultLast' = VaultRes("createVault", passphrase, NoVerifier, refused)
              ELSE /\ vaultCall' = [ op |-> "createVault", passphrase |-> passphrase,
                                     record |-> vaultState.record, key |-> vaultUser ]
                   /\ vaultLast' = VaultRes("createVault", passphrase, NoVerifier, "hashing")
    /\ UNCHANGED << vaultMounted, vaultRequired, vaultWindow, vaultUser, vaultState,
                    vaultStorage >>
    /\ UNCHANGED otherThanVault

\* createVault after its await: the record goes to the key the call began with
CreateVaultHashed ==
    /\ vaultCall.op = "createVault"
    /\ LET verifier == hashPassphrase(vaultWindow, vaultCall.passphrase)
       IN  /\ vaultStorage' = [ vaultStorage EXCEPT ![vaultCall.key] = verifier ]
           /\ vaultState' = [ status |-> "unlocked", record |-> RecordOf(verifier),
                              hasVault |-> TRUE, activeVerifier |-> verifier ]
           /\ vaultLast' = VaultRes("createVault", vaultCall.passphrase, verifier, "ok")
    /\ vaultCall' = NoCall
    /\ UNCHANGED << vaultMounted, vaultRequired, vaultWindow, vaultUser >>
    /\ UNCHANGED otherThanVault

\* unlockVault up to its await
UnlockVault ==
    /\ vaultMounted /\ vaultCall = NoCall
    /\ \E passphrase \in Passphrases :
          LET refused ==
                  IF ~vaultRequired \/ vaultState.status = "unlocked" THEN "skipped"
                  ELSE IF ~vaultState.record.present
                  THEN "Vault has not been created yet."
                  ELSE "no"
          IN  IF refused # "no"
              THEN /\ vaultCall' = NoCall
                   /\ vaultLast' = VaultRes("unlockVault", passphrase, NoVerifier, refused)
              ELSE /\ vaultCall' = [ op |-> "unlockVault", passphrase |-> passphrase,
                                     record |-> vaultState.record, key |-> vaultUser ]
                   /\ vaultLast' = VaultRes("unlockVault", passphrase, NoVerifier, "hashing")
    /\ UNCHANGED << vaultMounted, vaultRequired, vaultWindow, vaultUser, vaultState,
                    vaultStorage >>
    /\ UNCHANGED otherThanVault

\* unlockVault after its await: the verifier is compared with the record
\* the call began with
UnlockVaultHashed ==
    /\ vaultCall.op = "unlockVault"
    /\ LET verifier == hashPassphrase(vaultWindow, vaultCall.passphrase)
       IN  IF verifier # vaultCall.record.verifier
           THEN /\ vaultState' = vaultState
                /\ vaultLast' = VaultRes("unlockVault", vaultCall.passphrase, verifier,
                                         "Incorrect passphrase.")
           ELSE /\ vaultState' = [ vaultState EXCEPT !.status = "unlocked",
                                                     !.activeVerifier = verifier ]
                /\ vaultLast' = VaultRes("unlockVault", vaultCall.passphrase, verifier, "ok")
    /\ vaultCall' = NoCall
    /\ UNCHANGED << vaultMounted, vaultRequired, vaultWindow, vaultUser, vaultStorage >>
    /\ UNCHANGED otherThanVault

LockVault ==
    /\ vaultMounted
    /\ vaultState' =
          IF ~vaultRequired THEN vaultState
          ELSE IF ~vaultState.record.present THEN NeedsSetupState
          ELSE [ vaultState EXCEPT !.status = "locked", !.activeVerifier = NoVerifier ]
    /\ vaultLast' = VaultRes("lockVault", << >>, NoVerifier,
                             IF vaultRequired THEN "ok" ELSE "skipped")
    /\ UNCHANGED << vaultMounted, vaultRequired, vaultWindow, vaultUser, vaultStorage,
                    vaultCall >>
    /\ UNCHANGED otherThanVault

ClearVault ==
    /\ vaultMounted
    /\ IF ~vaultRequired
       THEN UNCHANGED << vaultState, vaultStorage >>
       ELSE /\ vaultStorage' =
                  IF vaultWindow.storage /\ vaultUser # NoUser
                  THEN [ vaultStorage EXCEPT ![vaultUser] = NoVerifier ]
                  ELSE vaultStorage
            /\ vaultState' = NeedsSetupState
    /\ vaultLast' = VaultRes("clearVault", << >>, NoVerifier,
                             IF vaultRequired THEN "ok" ELSE "skipped")
    /\ UNCHANGED << vaultMounted, vaultRequired, vaultWindow, vaultUser, vaultCall >>
    /\ UNCHANGED otherThanVault

(***************************************************************************)
(* startDaemon: the connection task, the stream RPC handlers and the        *)
(* shutdown sequence around the StreamSubscriptionManager.  The connection  *)
(* task runs resubscribeAll as caller k1, a subscribe request runs add as   *)
(* caller k2.                                                               *)
(***************************************************************************)

\* normalizeStreamIds: trimmed, non-empty, each id once, in order of first mention
RECURSIVE normalizeStreamIds(_)
normalizeStreamIds(ids) ==
    IF Len(ids) = 0 THEN << >>
    ELSE LET front == normalizeStreamIds(SubSeq(ids, 1, Len(ids) - 1))
             streamId == Trim(ids[Len(ids)])
         IN  IF Len(streamId) = 0 \/ \E i \in 1..Len(front) : front[i] = streamId
             THEN front
             ELSE Append(front, streamId)

\* every requested id is returned, desired before or not
trackDesiredAll(want, todo, added) ==
    [ desired |-> want \cup { normalizeStreamIds(todo)[i] :
                                i \in 1..Len(normalizeStreamIds(todo)) },
      added |-> added \o normalizeStreamIds(todo) ]

\* StreamSubscriptionManager.trackDesired: the ids it added are returned
RECURSIVE trackDesired(_, _, _)
trackDesired(want, todo, added) ==
    IF Len(todo) = 0 THEN [ desired |-> want, added |-> added ]
    ELSE LET streamId == Trim(Head(todo))
         IN  IF Len(streamId) = 0 \/ streamId \in want
             THEN trackDesired(want, Tail(todo), added)
             ELSE trackDesired(want \cup { streamId }, Tail(todo), Append(added, streamId))

ConfigStreams == StreamIdLists \cup { << >> }

LifeRes(op, ids, queued, connected) ==
    [ op |-> op, ids |-> ids, queued |-> queued, connected |-> connected ]

LifeInit ==
    /\ started = FALSE
    /\ connectionReady = FALSE
    /\ running = TRUE
    /\ aborted = FALSE
    /\ connTask = "none"
    /\ shutdown = "waiting"
    /\ lifeLast = LifeRes("none", << >>, << >>, FALSE)

\* startDaemon up to the start of the connection task
StartDaemon ==
    /\ ~started
    /\ started' = TRUE
    /\ \E initialStreams \in ConfigStreams :
          desired' = trackDesired(desired, initialStreams, << >>).desired
    /\ connTask' = "connecting"
    /\ UNCHANGED << connectionReady, running, aborted, shutdown, lifeLast >>
    /\ UNCHANGED << active, caller, streamLast, streamCalls, httpLast, live, otherThanStreamsAndLife >>

\* connectWithSchemaRecovery has resolved: resubscribeAll begins with closeAll
Connected ==
    /\ connTask = "connecting"
    /\ IF ~running /\ aborted
       THEN /\ connTask' = "stopped"
            /\ UNCHANGED << connectionReady, active, caller, live >>
       ELSE /\ connectionReady' = TRUE
            /\ connTask' = "resubscribing"
            /\ caller' = [ caller EXCEPT !["k1"] = [ IdleCaller EXCEPT !.pc = "closing",
                                                                   !.op = "resubscribeAll" ] ]
            /\ active' = {}
            /\ live' = Unsubscribed(live, active)
    /\ UNCHANGED << started, running, aborted, shutdown, lifeLast >>
    /\ UNCHANGED << desired, streamLast, streamCalls, httpLast, otherThanStreamsAndLife >>

\* connectWithSchemaRecovery has thrown
ConnectFails ==
    /\ connTask = "connecting"
    /\ connTask' = "failed"
    /\ running' = FALSE
    /\ aborted' = TRUE
    /\ UNCHANGED << started, connectionReady, shutdown, lifeLast >>
    /\ UNCHANGED << streamVars, otherThanStreamsAndLife >>

\* requestShutdown from a signal or the shutdown route
RequestShutdown ==
    /\ started /\ ~aborted
    /\ running' = FALSE
    /\ aborted' = TRUE
    /\ UNCHANGED << started, connectionReady, connTask, shutdown, lifeLast >>
    /\ UNCHANGED << streamVars, otherThanStreamsAndLife >>

\* the shutdown sequence: closeAll up to its await
ShutdownCloseAll ==
    /\ aborted /\ shutdown = "waiting"
    /\ active' = {}
    /\ live' = Unsubscribed(live, active)
    /\ shutdown' = "closing"
    /\ UNCHANGED << started, connectionReady, running, aborted, connTask, lifeLast >>
    /\ UNCHANGED << desired, caller, streamLast, streamCalls, httpLast, otherThanStreamsAndLife >>

\* the shutdown sequence after closeAll: database and server are closed
ShutdownComplete ==
    /\ shutdown = "closing"
    /\ connectionReady' = FALSE
    /\ shutdown' = "complete"
    /\ UNCHANGED << started, running, aborted, connTask, lifeLast >>
    /\ UNCHANGED << streamVars, otherThanStreamsAndLife >>

\* subscribeStreams, up to its return or to the first await of add
SubscribeStreams ==
    /\ started /\ shutdown # "complete"
    /\ caller["k2"].pc = "idle"
    /\ \E ids \in StreamIdLists :
        LET normalized == normalizeStreamIds(ids)
        IN  IF Len(normalized) = 0
            THEN /\ lifeLast' = LifeRes("subscribe", normalized, << >>, connectionReady)
                 /\ UNCHANGED << desired, caller, streamLast >>
            ELSE IF ~connectionReady
            THEN LET tracked == trackDesired(desired, normalized, << >>)
                 IN  /\ desired' = tracked.desired
                     /\ lifeLast' = LifeRes("subscribe", normalized, tracked.added, FALSE)
                     /\ UNCHANGED << caller, streamLast >>
            ELSE /\ AddOn("k2", "add", normalized,
                          AddRun(desired, active, normalized, << >>, << >>))
                 /\ lifeLast' = LifeRes("subscribe", normalized, << >>, TRUE)
    /\ UNCHANGED << started, connectionReady, running, aborted, connTask, shutdown >>
    /\ UNCHANGED << active, streamCalls, httpLast, live, otherThanStreamsAndLife >>

\* unsubscribeStreams
UnsubscribeStreams ==
    /\ started /\ shutdown # "complete"
    /\ \E ids \in StreamIdLists :
        LET normalized == normalizeStreamIds(ids)
            run == RemoveRun(desired, active, normalized, << >>, << >>)
        IN  /\ desired' = run.desired
            /\ active' = run.active
            /\ live' = Unsubscribed(live, active \ run.active)
            /\ streamLast' = IF Len(normalized) = 0 THEN streamLast
                             ELSE StreamRes("remove", normalized, run.removed, run.notFound)
            /\ lifeLast' = LifeRes("unsubscribe", normalized, << >>, connectionReady)
    /\ UNCHANGED << started, connectionReady, running, aborted, connTask, shutdown >>
    /\ UNCHANGED << caller, streamCalls, httpLast, otherThanStreamsAndLife >>

(***************************************************************************)
(* PowerSyncProvider of the explorer: the raw table migration effect and   *)
(* the connect effect.  React runs an effect after mount and again after   *)
(* its cleanup (a dependency change, or the remount of StrictMode, which   *)
(* keeps state and refs).                                                  *)
(***************************************************************************)

EffectRunIds == 1 .. MaxEffectRuns

migrateVars == << effectOn, rawTablesReady, rawTableMigratedRef, effectRuns, migratePc, cancelled >>

connectVars == << connectPc, connectAttempt, disposed >>

sessionVars == << sessionStatus, accessToken, daemonReady >>

buildVars == << isPowerSyncDisabled, preferDaemon >>

\* the component before its first effect: useState(false), useRef(false)
ProviderInit ==
    /\ effectOn = FALSE
    /\ isPowerSyncDisabled = FALSE
    /\ preferDaemon = FALSE
    /\ rawTablesReady = FALSE
    /\ rawTableMigratedRef = FALSE
    /\ effectRuns = 0
    /\ migratePc = [ r \in EffectRunIds |-> "none" ]
    /\ cancelled = [ r \in EffectRunIds |-> FALSE ]
    /\ sessionStatus = "loading"
    /\ accessToken = FALSE
    /\ daemonReady = FALSE
    /\ connectPc = "idle"
    /\ connectAttempt = 0
    /\ disposed = FALSE

\* the module constants of the build, fixed before the first effect
ProviderBuild ==
    /\ effectRuns = 0
    /\ ~effectOn
    /\ \E off \in BOOLEAN, daemon \in BOOLEAN :
        /\ << off, daemon >> # << isPowerSyncDisabled, preferDaemon >>
        /\ isPowerSyncDisabled' = off
        /\ preferDaemon' = daemon
    /\ UNCHANGED << migrateVars, connectVars, sessionVars, otherThanProvider >>

\* the raw table migration effect: ready at once when PowerSync is disabled
\* or the ref is set; otherwise it sets the ref and starts migrate(), which
\* runs setRawTablesReady(false) before its first await
MigrationEffect ==
    /\ ~effectOn
    /\ effectRuns < MaxEffectRuns
    /\ effectOn' = TRUE
    /\ effectRuns' = effectRuns + 1
    /\ IF isPowerSyncDisabled \/ rawTableMigratedRef
       THEN /\ rawTablesReady' = TRUE
            /\ UNCHANGED << rawTableMigratedRef, migratePc >>
       ELSE /\ rawTableMigratedRef' = TRUE
            /\ rawTablesReady' = FALSE
            /\ migratePc' = [ migratePc EXCEPT ![effectRuns + 1] = "running" ]
    /\ UNCHANGED << cancelled, connectVars, sessionVars, buildVars, otherThanProvider >>

\* the effect's cleanup: cancelled = true for the run that is mounted
MigrationCleanup ==
    /\ effectOn
    /\ effectOn' = FALSE
    /\ cancelled' = [ cancelled EXCEPT ![effectRuns] = TRUE ]
    /\ UNCHANGED << rawTablesReady, rawTableMigratedRef, effectRuns, migratePc,
                    connectVars, sessionVars, buildVars, otherThanProvider >>

\* runRawTableMigration resolves or rejects: the finally block sets
\* rawTablesReady unless the run was cancelled
MigrationSettles ==
    \E r \in EffectRunIds :
        /\ migratePc[r] = "running"
        /\ migratePc' = [ migratePc EXCEPT ![r] = "finished" ]
        /\ rawTablesReady' = IF cancelled[r] THEN rawTablesReady ELSE TRUE
        /\ UNCHANGED << effectOn, rawTableMigratedRef, effectRuns, cancelled,
                        connectVars, sessionVars, buildVars, otherThanProvider >>

\* the early returns of the connect effect
ConnectWanted ==
    /\ ~isPowerSyncDisabled
    /\ sessionStatus = "authenticated"
    /\ preferDaemon \/ accessToken
    /\ ~preferDaemon \/ daemonReady
    /\ rawTablesReady

\* the session, the token or the daemon's readiness changes: the cleanup of
\* the connect effect disposes a connect() that is on its way
SessionChange ==
    /\ \E st \in { "loading", "authenticated", "error" }, token \in BOOLEAN,
          ready \in BOOLEAN :
        /\ << st, token, ready >> # << sessionStatus, accessToken, daemonReady >>
        /\ sessionStatus' = st
        /\ accessToken' = token
        /\ daemonReady' = ready
    /\ disposed' = IF connectPc \in { "connecting", "recovering" } THEN TRUE ELSE disposed
    /\ UNCHANGED << connectPc, connectAttempt, migrateVars, buildVars, otherThanProvider >>

\* the connect effect starts connect(0); one connect() at a time here
ConnectEffect ==
    /\ ConnectWanted
    /\ connectPc \in { "idle", "failed" }
    /\ connectPc' = "connecting"
    /\ connectAttempt' = 0
    /\ disposed' = FALSE
    /\ UNCHANGED << migrateVars, sessionVars, buildVars, otherThanProvider >>

\* powerSync.connect resolves
ConnectResolves ==
    /\ connectPc = "connecting"
    /\ connectPc' = "connected"
    /\ UNCHANGED << connectAttempt, disposed, migrateVars, sessionVars, buildVars,
                    otherThanProvider >>

\* powerSync.connect rejects: a schema mismatch on the first attempt clears
\* the local tables and runs runRawTableMigration again
ConnectRejects ==
    /\ connectPc = "connecting"
    /\ \E mismatch \in BOOLEAN :
        connectPc' = IF ~disposed /\ connectAttempt = 0 /\ mismatch
                     THEN "recovering" ELSE "failed"
    /\ UNCHANGED << connectAttempt, disposed, migrateVars, sessionVars, buildVars,
                    otherThanProvider >>

\* the recovery's migration settles: connect(attempt + 1) unless disposed
RecoverySettles ==
    /\ connectPc = "recovering"
    /\ IF disposed
       THEN connectPc' = "failed" /\ UNCHANGED connectAttempt
       ELSE connectPc' = "connecting" /\ connectAttempt' = connectAttempt + 1
    /\ UNCHANGED << disposed, migrateVars, sessionVars, buildVars, otherThanProvider >>

(***************************************************************************)
(* Specifications.                                                          *)
(***************************************************************************)
Init == DaemonInit /\ IndexInit /\ PathInit /\ FsInit /\ CredInit /\ WriterInit /\ AuthInit /\ StreamInit /\ ServerInit /\ VaultInit /\ LifeInit /\ ProviderInit

\* one push handler at a time, either service, and fetches between pushes
Next ==
    \/ StartPush("p1", RawBatches, TRUE)
    \/ BadRequest("p1", RawBatches)
    \/ EdgePush("p1")
    \/ StorePack("p1")
    \/ ReadRef("p1")
    \/ CasWrite("p1")
    \/ PushRespond("p1")
    \/ PushUploadFail("p1")
    \/ Finish("p1")
    \/ FetchPack

Spec == Init /\ [][Next]_vars

\* two daemon push handlers interleave at their await points
NextRace ==
    \E p \in Procs :
        \/ StartPush(p, RaceBatches, FALSE)
        \/ StorePack(p)
        \/ ReadRef(p)
        \/ CasWrite(p)
        \/ CasConflict(p)
        \/ PushRespond(p)
        \/ PushUploadFail(p)
        \/ Finish(p)

SpecRace == Init /\ [][NextRace]_vars

\* rows replicated from the backing store are fetched
NextStored ==
    \/ ReplicateRow
    \/ FetchPack

SpecStored == Init /\ [][NextStored]_vars

\* one ObjectIndexQueue, its callers, its worker and the host's storage
NextIndex ==
    \/ IndexPacks
    \/ StartDecode
    \/ FinishDecode
    \/ Yield
    \/ ClearPersisted
    \/ Reload

SpecIndex == Init /\ [][NextIndex]_vars

\* paths are normalized
NextPath == NormalizePath

SpecPath == Init /\ [][NextPath]_vars

\* one caller at a time uses the filesystem
NextFs ==
    \/ ReadFile
    \/ WriteFile
    \/ Unlink
    \/ Readdir
    \/ Mkdir
    \/ Rmdir
    \/ Rename
    \/ Stat

SpecFs == Init /\ [][NextFs]_vars

\* the methods that change the tree or the pack store
NextFsChange ==
    \/ WriteFile
    \/ Unlink
    \/ Mkdir
    \/ Rmdir
    \/ Rename
    \/ Rm

SpecFsChange == Init /\ [][NextFsChange]_vars

\* the connector serves the sync client while the CLI runs its command
NextCred ==
    \/ NewConnector
    \/ FetchStart
    \/ ProviderAnswers
    \/ FetchMissing
    \/ FetchReturn
    \/ SyncLoad
    \/ SyncCheck
    \/ SyncEnsureDaemon
    \/ SyncSummary
    \/ SyncReturn

SpecCred == Init /\ [][NextCred]_vars

\* the writer drains the CRUD queue one transaction at a time
NextWriter ==
    \/ UploadPending
    \/ ApplyTransaction
    \/ UploadDrained
    \/ UploadData
    \/ UploadBatch
    \/ UploadNoBatch

SpecWriter == Init /\ [][NextWriter]_vars

\* the daemon's auth routes, the clock and the sync client's credential waits
NextAuth ==
    \/ CreateAuth
    \/ DevTick
    \/ DeviceBegin
    \/ DeviceComplete
    \/ WaitForCredentials
    \/ SetReadyCredentials
    \/ Logout

SpecAuth == Init /\ [][NextAuth]_vars

\* callers of the stream manager interleave at its awaits
NextStreams ==
    \/ StreamAdd
    \/ StreamSubscribed
    \/ StreamRemove
    \/ StreamResubscribe
    \/ StreamClosed
    \/ HttpStreams

SpecStreams == Init /\ [][NextStreams]_vars

\* clients call the auth routes one request after another
NextServer == HttpAuth

SpecServer == Init /\ [][NextServer]_vars

NextVault ==
    \/ VaultProvider
    \/ AuthChange
    \/ CreateVault
    \/ CreateVaultHashed
    \/ UnlockVault
    \/ UnlockVaultHashed
    \/ LockVault
    \/ ClearVault

SpecVault == Init /\ [][NextVault]_vars

\* the daemon from start to shutdown, with stream requests arriving
NextLife ==
    \/ StartDaemon
    \/ Connected
    \/ ConnectFails
    \/ RequestShutdown
    \/ ShutdownCloseAll
    \/ ShutdownComplete
    \/ SubscribeStreams
    \/ UnsubscribeStreams
    \/ StreamClosed
    \/ StreamSubscribed

SpecLife == Init /\ [][NextLife]_vars

\* the connection task is not starved: the promises it awaits settle
ConnectionTaskMoves == caller["k1"].pc # "idle" /\ caller'["k1"] # caller["k1"]

SpecLifeFair ==
    /\ SpecLife
    /\ WF_vars(StreamClosed /\ ConnectionTaskMoves)
    /\ WF_vars(StreamSubscribed /\ ConnectionTaskMoves)

NextProvider ==
    \/ ProviderBuild
    \/ MigrationEffect
    \/ MigrationCleanup
    \/ MigrationSettles
    \/ SessionChange
    \/ ConnectEffect
    \/ ConnectResolves
    \/ ConnectRejects
    \/ RecoverySettles

SpecProvider == Init /\ [][NextProvider]_vars

(***************************************************************************)
(* The claims.                                                               *)
(***************************************************************************)
\* a push handler has answered a push with a result set
Answered(p) == pc[p] = "done" /\ resp[p].kind = "push"

StatusOf(p, d) == resp[p].results[d].status

\* the objects the remote holds
Known == RecordedObjects(objects)

\* an update is reported ok or its target is stored
Taken(p, u) == StatusOf(p, u.dst) = "ok" \/ refs[u.dst] = u.src

\* C1: a non-force update of an existing ref with target A is accepted only if
\* its new target descends from A; a non-force update of a ref that does not
\* exist is accepted; every other non-force update reports status error and
\* the ref keeps target A.
C1_NonForceRule ==
    \A p \in Procs :
        Answered(p) =>
            \A i \in 1..Len(Updates(p)) :
                LET u == Updates(p)[i]
                    A == startRefs[p][u.dst]
                IN  ~u.force =>
                        /\ (A # Absent /\ StatusOf(p, u.dst) = "ok") => Descends(u.src, A, Known)
                        /\ (A = Absent) => Taken(p, u)
                        /\ (A # Absent /\ ~Descends(u.src, A, Known)) =>
                               (StatusOf(p, u.dst) = "error" /\ refs[u.dst] = A)

\* the two pushes of a race: both answered, each started while the other ran
\* or was started on by the other, on ref r, from the same target of r, each a
\* valid update of that target, with targets that do not descend from one another
CleanRace ==
    /\ \A p \in Procs : Answered(p) /\ raced[p] /\ req[p].route = "daemon"
    /\ startRefs["p1"]["r"] = startRefs["p2"]["r"]
    /\ LET u1 == Updates("p1")[1]
           u2 == Updates("p2")[1]
       IN  /\ u1.src # u2.src
           /\ ~Descends(u1.src, u2.src, Oids)
           /\ ~Descends(u2.src, u1.src, Oids)
           /\ Validate(u1, startRefs["p1"]["r"], Oids)
           /\ Validate(u2, startRefs["p2"]["r"], Oids)

\* C2: of two racing non-force pushes of ref r with targets that do not descend
\* from one another exactly one reports ok, the other reports error, and r
\* holds the target of the one that reported ok.
C2_RaceOneAccepted ==
    CleanRace =>
        \E w \in Procs :
            /\ StatusOf(w, "r") = "ok"
            /\ \A l \in Procs \ { w } : StatusOf(l, "r") = "error"
            /\ refs["r"] = Updates(w)[1].src

FastForwardValid(p, u) ==
    ~u.force /\ startRefs[p][u.dst] # Absent /\ Descends(u.src, startRefs[p][u.dst], Known)

FastForwardInvalid(p, u) ==
    ~u.force /\ startRefs[p][u.dst] # Absent /\ ~Descends(u.src, startRefs[p][u.dst], Known)

\* C4: a batch of one fast-forward-valid and one invalid update reports ok for
\* the valid ref and error for the invalid ref, and the valid ref is updated.
C4_PartialBatch ==
    \A p \in Procs :
        (Answered(p) /\ req[p].route = "daemon") =>
            \A i, j \in 1..Len(Updates(p)) :
                LET v == Updates(p)[i]
                    w == Updates(p)[j]
                IN  (FastForwardValid(p, v) /\ FastForwardInvalid(p, w)) =>
                        /\ StatusOf(p, v.dst) = "ok"
                        /\ StatusOf(p, w.dst) = "error"
                        /\ refs[v.dst] = v.src

\* C5: the results of a push response hold one status entry for each ref the
\* request names (and, from the daemon, for no other key).
C5_OneStatusPerRef ==
    \A p \in Procs :
        Answered(p) =>
            /\ \A d \in NamedRefs(req[p].raw) :
                   d \in DOMAIN resp[p].results /\ StatusOf(p, d) \in { "ok", "error" }
            /\ req[p].route = "daemon" => DOMAIN resp[p].results = NamedRefs(req[p].raw)

\* a batch of two refs answered with one ok and one error
C5_Witness ==
    /\ Answered("p1")
    /\ req["p1"].route = "daemon"
    /\ Cardinality(NamedRefs(req["p1"].raw)) = 2
    /\ \E d, e \in NamedRefs(req["p1"].raw) :
           StatusOf("p1", d) = "ok" /\ StatusOf("p1", e) = "error"

\* a fetch was answered after its pack lookup returned
Fetched == fetchResp.kind = "fetch" /\ ~fetchResp.lookupFailed

\* C6: after a push of pack P with update r -> O was accepted, a fetch (whose
\* pack lookup succeeds) returns bytes identical to P and the ref listing
\* reports O for r.
C6_RoundTrip ==
    (Fetched /\ lastAccepted.pack # NoPack /\ lastAccepted.updates # {}) =>
        /\ fetchResp.status = 200
        /\ Base64Decode(fetchResp.pack) = lastAccepted.pack
        /\ \A a \in lastAccepted.updates : << a[2], a[1] >> \in listRefs(refs)

C6_Witness ==
    /\ Fetched
    /\ fetchResp.status = 200
    /\ lastAccepted.pack = PackFile["B"]
    /\ << "r", "B" >> \in lastAccepted.updates

\* the PackRecords as a set of <id, bytes>
Records(rows) == { << rows[i].pack_oid, RowBytes(rows[i]) >> : i \in 1..Len(rows) }

\* C7: the second push of the same (src = O, dst = r) pair reports ok, leaves r
\* at O and changes no PackRecord.
C7_Idempotent ==
    \A p \in Procs :
        (/\ Answered(p)
         /\ req[p].route = "daemon"
         /\ Len(Updates(p)) = 1
         /\ ~Updates(p)[1].force
         /\ startRefs[p][Updates(p)[1].dst] = Updates(p)[1].src
         /\ req[p].pack # NoPack
         /\ << PackOid(req[p].pack), req[p].pack >> \in Records(startObjects[p]))
        => /\ StatusOf(p, Updates(p)[1].dst) = "ok"
           /\ refs[Updates(p)[1].dst] = Updates(p)[1].src
           /\ Records(objects) = Records(startObjects[p])

\* the stored packs that hold all wanted objects
Satisfying(rows, wants) ==
    { i \in 1..Len(rows) : wants \subseteq PackObjects(RowBytes(rows[i])) }

\* C8: without wants fetchPack returns the newest PackRecord; with wants it
\* returns a pack that holds the wanted objects, or null when no stored pack does.
C8_FetchWants ==
    Fetched =>
        IF fetchResp.wants = NoWants
        THEN IF Len(objects) = 0 THEN fetchResp.status = 404
             ELSE /\ fetchResp.status = 200
                  /\ fetchResp.keep = objects[Len(objects)].pack_oid
        ELSE IF Satisfying(objects, fetchResp.wants) = {} THEN fetchResp.status = 404
             ELSE /\ fetchResp.status = 200
                  /\ fetchResp.wants \subseteq PackObjects(Base64Decode(fetchResp.pack))

\* the stored value is text in one of the two encodings a pack is stored in
WellFormed(v) ==
    /\ v.isString
    /\ \/ HasHexPrefix(Trim(v.text)) /\ IsHexRun(SubSeq(Trim(v.text), 3, Len(Trim(v.text))))
       \/ isLikelyBase64(Trim(v.text))

LatestValue == objects[Len(objects)].pack_bytes

Blank(v) == ~v.isString \/ TrimStart(v.text) = << >>

\* the bytes of a stored text: hex after a valid \x prefix, else base64 when
\* it has base64 shape, else its characters
LenientBytes(t) ==
    IF HasHexPrefix(t) /\ IsHexRun(SubSeq(t, 3, Len(t))) THEN HexDecode(SubSeq(t, 3, Len(t)))
    ELSE IF isLikelyBase64(t) THEN Base64Decode(t)
    ELSE [ i \in 1..Len(t) |-> CharCode(t[i]) ]

RecordsKept ==
    /\ \A k \in DOMAIN bucket : k \in DOMAIN bucket' /\ bucket'[k] = bucket[k]
    /\ Records(objects) \subseteq Records(objects')

CallPacks(i) == { calls[i].packs[k] : k \in 1..Len(calls[i].packs) }

\* C11: at no time are two pack decodes in progress in one ObjectIndexQueue.
C11_OneDecodeAtATime == Len(decoding) <= 1

\* a second call arrived while a decode was in progress and packs are waiting
C11_Witness ==
    /\ Len(decoding) = 1
    /\ Len(packQueue) >= 1
    /\ Len(calls) = 2
    /\ calls[2].during = "indexing"

\* C12: when indexPacks is called again after a run has ended, every pack of
\* the two calls whose decode succeeded was decoded exactly once by this
\* instance (not at all when it was loaded as indexed), and the status is
\* ready whenever the calls made have been worked off.
C12_IndexOnce ==
    (~Working /\ Len(calls) >= 1) =>
        /\ progress.status = "ready"
        /\ (Len(calls) = 2 /\ calls[2].during # "indexing") =>
               \A o \in (CallPacks(1) \cup CallPacks(2)) \ failed :
                   decodes[o] = IF o \in loaded THEN 0 ELSE 1

\* pack a was given to both calls, pack b to the second only
C12_Witness ==
    /\ ~Working
    /\ Len(calls) = 2
    /\ calls[2].during = "ready"
    /\ CallPacks(1) = { "a" }
    /\ CallPacks(2) = { "a", "b" }
    /\ decodes["a"] = 1
    /\ decodes["b"] = 1

\* C13: a pack_oid is in IndexedPackSet (in memory or persisted) only if the
\* decode of that pack has succeeded; a pack whose decode failed is no member.
C13_IndexedOnlyAfterDecode ==
    /\ (indexedPacks \cup persistedPacks) \subseteq objectDb
    /\ indexedPacks \cap failed = {}

\* one decode has failed, one is in progress, one pack is indexed
C13_Witness ==
    /\ "x" \in failed
    /\ "a" \in indexedPacks
    /\ Len(decoding) = 1
    /\ Head(decoding) \notin indexedPacks

\* C14: the subscriber of a run over N new packs receives first an update
\* with status indexing and total N, then an update for every completed pack,
\* and, when the run has ended, a last update with status ready.
C14_ProgressUpdates ==
    (Len(calls) >= 1 /\ calls[1].fresh > 0) =>
        /\ Len(updates) >= 1
        /\ updates[1] = [ status |-> "indexing", total |-> calls[1].fresh, completed |-> 0 ]
        /\ \A k \in 1..progress.completed :
               \E i \in 1..Len(updates) :
                   updates[i].status = "indexing" /\ updates[i].completed = k
        /\ ~Working =>
               /\ updates[Len(updates)].status = "ready"
               /\ progress.completed = progress.total

\* a run over two new packs has ended: indexing, two completions, ready
C14_Witness ==
    /\ ~Working
    /\ Len(calls) = 1
    /\ calls[1].fresh = 2
    /\ Len(updates) = 4
    /\ updates[4].status = "ready"

\* C15: a pack that was indexed and whose persisted mark was cleared is, when
\* an instance that did not load the mark is given the pack, indexed without
\* a failed decode, and the instance ends with status ready.
C15_ReindexAfterEviction ==
    \A o \in evicted \ loaded :
        (~Working /\ \E i \in 1..Len(calls) : o \in CallPacks(i)) =>
            /\ o \in indexedPacks
            /\ o \notin failed
            /\ progress.status = "ready"

\* pack a was evicted and a new instance has indexed and persisted it again
C15_Witness ==
    /\ "a" \in evicted
    /\ loaded = {}
    /\ persistedPacks = { "a" }
    /\ decodes["a"] = 1
    /\ ~Working
    /\ progress.status = "ready"

\* the segments of a normalized path
SegmentsOf(normalized) == SplitSlash(SubSeq(normalized, 2, Len(normalized)))

\* C19: normalization is idempotent and canonical: a normalized path starts
\* with exactly one slash, has no empty, '.' or '..' segment, '..' at the root
\* stays at the root, and the node an operation walks to is the one the
\* normalized form names.
C19_NormalizeCanonical ==
    /\ normalize(pathOut) = pathOut
    /\ pathOut[1] = "/"
    /\ Len(pathOut) > 1 => pathOut[2] # "/"
    /\ Len(pathOut) > 1 =>
           \A i \in 1..Len(SegmentsOf(pathOut)) :
               /\ Len(SegmentsOf(pathOut)[i]) > 0
               /\ SegmentsOf(pathOut)[i] \notin { DotSegment, DotDotSegment }
    /\ pathIn = << "/", ".", "." >> => pathOut = RootPath
    /\ TraversedParts(pathIn) = Parts(pathOut)

\* the path carries the pack-file suffix
PackPath(path) == EndsWith(path, PackSuffix)

\* C16: after writeFile on a path with the pack-file suffix the bytes are in the
\* pack store under the normalized path and not in the tree node, the node's
\* size is the stored byte length, and stat on the path reports the size and
\* the mtime held by the pack store
C16_PackBytesInStore ==
    /\ (fsLast.op = "writeFile" /\ fsLast.code = "ok" /\ PackPath(normalize(fsLast.path))) =>
           LET normalized == normalize(fsLast.path)
               at         == Parts(normalized)
               reported   == stat(fsTree, packEntries, "stat", fsLast.path).res
           IN  /\ normalized \in DOMAIN packEntries
               /\ packEntries[normalized].data = fsLast.data
               /\ at \in DOMAIN fsTree
               /\ fsTree[at].type = "file"
               /\ ~fsTree[at].hasData
               /\ fsTree[at].data = << >>
               /\ fsTree[at].size = Len(packEntries[normalized].data)
               /\ reported.code = "ok"
               /\ reported.size = Len(packEntries[normalized].data)
               /\ reported.mtimeMs = packEntries[normalized].mtimeMs
    /\ (fsLast.op \in { "stat", "lstat" } /\ fsLast.code = "ok"
        /\ normalize(fsLast.path) \in DOMAIN packEntries
        /\ fsTree[Parts(normalize(fsLast.path))].external) =>
           /\ fsLast.size = Len(packEntries[normalize(fsLast.path)].data)
           /\ fsLast.mtimeMs = packEntries[normalize(fsLast.path)].mtimeMs

\* a pack file was written over an older one and the store stamped it later
\* than the tree node
C16_Witness ==
    /\ fsLast.op = "writeFile"
    /\ fsLast.code = "ok"
    /\ PackPath(normalize(fsLast.path))
    /\ normalize(fsLast.path) \in DOMAIN packEntries
    /\ Parts(normalize(fsLast.path)) \in DOMAIN fsTree
    /\ packEntries[normalize(fsLast.path)].mtimeMs
           # fsTree[Parts(normalize(fsLast.path))].mtimeMs
    /\ clock > 1

\* C17: in every reachable state a file node is external exactly when its
\* normalized path matches the pack-file suffix, also after a rename
C17_ExternalIffPackPath ==
    \A q \in DOMAIN fsTree :
        fsTree[q].type = "file" => (fsTree[q].external <=> PackPath(Abs(q)))

FsErrorCodes == { "ENOENT", "ENOTDIR", "EISDIR", "ENOTEMPTY", "EEXIST" }

PathExists(path) == traverse(fsTree, path).found

PathIsDir(path) == PathExists(path) /\ fsTree[traverse(fsTree, path).parts].type = "dir"

PathIsFile(path) == PathExists(path) /\ fsTree[traverse(fsTree, path).parts].type = "file"

\* a file stands at a proper ancestor of the path
FileOnTheWay(path) ==
    LET parts == Parts(normalize(path))
    IN  \E k \in 0..(Len(parts) - 1) : PathIsFile(Abs(SubSeq(parts, 1, k)))

\* the directory that would hold the path is missing
ParentMissing(path) ==
    LET parts == Parts(normalize(path))
    IN  Len(parts) > 0 /\ ~PathExists(Abs(Front(parts)))

\* the code names what went wrong with the call
CodeMatches(r) ==
    CASE r.code = "ENOENT" ->
            ~PathExists(r.path) \/ (r.op = "rename" /\ ParentMissing(r.path2))
      [] r.code = "ENOTDIR" ->
            \/ FileOnTheWay(r.path)
            \/ FileOnTheWay(r.path2)
            \/ (r.op \in { "readdir", "rmdir", "mkdir" } /\ PathIsFile(r.path))
      [] r.code = "EISDIR" ->
            r.op \in { "readFile", "writeFile", "unlink" } /\ PathIsDir(r.path)
      [] r.code = "ENOTEMPTY" ->
            r.op = "rmdir" /\ PathIsDir(r.path)
                /\ EntryNames(fsTree, Parts(normalize(r.path))) # {}
      [] r.code = "EEXIST" -> r.op = "rename" /\ PathExists(r.path2)
      [] OTHER -> FALSE

\* C18: every error of readFile, writeFile, unlink, readdir, mkdir, rmdir,
\* rename, stat and lstat carries one of the five codes, and the code matches
\* the failure
C18_ErrorCodes ==
    fsLast.code # "ok" => (fsLast.code \in FsErrorCodes /\ CodeMatches(fsLast))

\* C20: when the credential provider throws or yields nothing, or the cached
\* credential is missing or expired, the operation ends with an authentication
\* failure for its caller: the provider is not called again and no request is
\* sent
C20_AuthFailure ==
    /\ providerCalls <= 1
    /\ (fetchPc = "done" /\ ~connStatic
        /\ (~connHasProvider \/ lastProvider \in { "throws", "null" })) =>
           fetchResult = "null"
    /\ fetchResult = "provided" => lastProvider = "credentials"
    /\ (syncPc = "done"
        /\ (~stored.loaded \/ ~stored.endpoint \/ ~stored.token \/ stored.expired)) =>
           /\ syncOutcome \in { "missing", "expired" }
           /\ requests = 0
    /\ requests > 0 =>
           stored.loaded /\ stored.endpoint /\ stored.token /\ ~stored.expired

\* the provider threw, and a run of the command found its credentials expired
C20_Witness ==
    /\ fetchPc = "done"
    /\ lastProvider = "throws"
    /\ fetchResult = "null"
    /\ syncPc = "done"
    /\ stored.loaded
    /\ stored.expired
    /\ syncOutcome = "expired"

\* the last operation a transaction holds for a row of a table
LastOp(tx, table, id) ==
    LET at == { i \in 1..Len(tx) : tx[i].table = table /\ tx[i].id = id }
    IN  IF at = {} THEN "absent"
        ELSE tx[CHOOSE i \in at : \A j \in at : j <= i].op

\* the calls of one kind that carry the row
CallsWith(made, table, id) ==
    { i \in 1..Len(made) : made[i].table = table /\ id \in SeqRange(made[i].ids) }

\* C21: of several operations for one row id in one CRUD transaction only the
\* last is applied to Supabase: DELETE then PUT gives one upsert and no delete,
\* PUT then DELETE gives one delete and no upsert
C21_LastOpWins ==
    writerResult = "ok" =>
        \A id \in { "r1", "r2" } :
            LET last == LastOp(writerTx, "refs", id)
                ups  == Cardinality(CallsWith(upsertCalls, "raw_refs", id))
                dels == Cardinality(CallsWith(deleteCalls, "raw_refs", id))
            IN  /\ last = "PUT" => (ups = 1 /\ dels = 0)
                /\ last = "DELETE" => (dels = 1 /\ ups = 0)

\* the TTL of the challenge a complete() call named had elapsed
Elapsed(call) == call.at - call.createdAt > challengeTtlMs

\* C22: a device challenge is completed only within its TTL since begin():
\* complete() for an expired or unknown challengeId returns false, installs no
\* credentials and leaves no expired challenge behind
C22_ExpiredOrUnknown ==
    devLast.op = "complete" =>
        /\ (~devLast.known \/ Elapsed(devLast)) =>
               /\ ~devLast.result
               /\ authStatus # "ready"
               /\ authToken = NoToken
               /\ devLast.id \notin DOMAIN challenges
        /\ devLast.result => (devLast.known /\ ~Elapsed(devLast))

\* complete() was called for a challenge whose TTL had elapsed
C22_Witness ==
    /\ devLast.op = "complete"
    /\ devLast.known
    /\ Elapsed(devLast)
    /\ ~devLast.result

NonBlankIds(ids) == { Trim(ids[i]) : i \in 1..Len(ids) } \ { << >> }

\* C25: GET /streams returns the subscribed stream ids, POST /streams subscribes
\* the non-blank ids of the request, DELETE /streams unsubscribes them
C25_StreamRoutes ==
    httpLast.path = "/streams" =>
        /\ httpLast.status = 200
        /\ httpLast.method = "GET" => httpLast.route = "listStreams"
        /\ httpLast.method = "POST" => NonBlankIds(httpLast.ids) \subseteq desired
        /\ httpLast.method = "DELETE" => NonBlankIds(httpLast.ids) \cap desired = {}

\* C30: in every reachable state of the stream subscription manager every
\* stream id with an active subscription is in the desired set
C30_ActiveAreDesired == active \subseteq desired

\* the handler gave an HTTP status a response can carry
GivesHttpStatus(payload) == payload.httpStatus.given /\ payload.httpStatus.value > 0

\* C26: the HTTP status of a response from /auth/guest, /auth/device and
\* /auth/logout is the handler's httpStatus when it gives one; otherwise 202 for
\* pending, 401 for auth_required, 400 for error and the route default (200, or
\* 202 for /auth/device) for ready
C26_AuthStatusCode ==
    (authHttp.route \in AuthRoutes /\ authHttp.outcome = "payload") =>
        IF GivesHttpStatus(authHttp.payload)
        THEN authHttp.status = authHttp.payload.httpStatus.value
        ELSE /\ authHttp.payload.status = "pending" => authHttp.status = 202
             /\ authHttp.payload.status = "auth_required" => authHttp.status = 401
             /\ authHttp.payload.status = "error" => authHttp.status = 400
             /\ authHttp.payload.status = "ready" =>
                    authHttp.status = IF authHttp.path = "/auth/device" THEN 202 ELSE 200

\* the handler of the second request gave 201 with the status error
C26_Witness ==
    /\ authHttp.route = "authGuest"
    /\ authHttp.outcome = "payload"
    /\ authHttp.payload.status = "error"
    /\ authHttp.payload.httpStatus = [ given |-> TRUE, value |-> 201 ]
    /\ authHttp.status = 201
    /\ authRequests = 2

\* the verifier in local storage that the session's user has, or null
StoredVerifier == IF vaultUser = NoUser THEN NoVerifier ELSE vaultStorage[vaultUser]

\* an unlockVault has come back from its hash with a verifier other than the stored one
WrongUnlock ==
    /\ vaultLast.op = "unlockVault"
    /\ vaultLast.result \in { "ok", "Incorrect passphrase." }
    /\ vaultLast.verifier # StoredVerifier

RejectsWrongUnlock ==
    WrongUnlock => vaultLast.result = "Incorrect passphrase." /\ vaultState.status # "unlocked"

\* a step that takes a required vault to unlocked is a createVault, or an
\* unlockVault whose verifier is the stored one
UnlockingStep ==
    (vaultMounted /\ vaultRequired /\ vaultState.status # "unlocked"
        /\ vaultState'.status = "unlocked")
    => \/ vaultLast'.op = "createVault"
       \/ vaultLast'.op = "unlockVault" /\ vaultLast'.verifier = StoredVerifier'

\* C27: unlockVault with a passphrase whose verifier differs from the stored
\* verifier rejects with 'Incorrect passphrase.' and leaves the vault locked,
\* and the status becomes unlocked only through createVault or through an
\* unlockVault whose verifier equals the stored verifier.
C27_UnlockNeedsStoredVerifier == [](RejectsWrongUnlock) /\ [][UnlockingStep]_vars

\* C28: the verifier that createVault persists in local storage is never
\* equal to the passphrase itself.
C28_VerifierIsNotPassphrase ==
    (vaultLast.op = "createVault" /\ vaultLast.result = "ok")
    => /\ vaultStorage[vaultLast.key] = vaultLast.verifier
       /\ vaultLast.verifier # vaultLast.passphrase

\* C29: a ref that a push response reports with status error has not been
\* updated by that push, in every execution of the daemon push handler
\* (persistPush, then the upload of the pending rows).
C29_ErrorMeansNotUpdated ==
    \A p \in Procs :
        (Answered(p) /\ req[p].route = "daemon") =>
            \A i \in 1..Len(Updates(p)) :
                StatusOf(p, Updates(p)[i].dst) = "error"
                => refs[Updates(p)[i].dst] = startRefs[p][Updates(p)[i].dst]

\* C31: for each stream id there is at most one live subscription at any
\* time, and every subscription the manager has obtained is held in its active
\* map or has been unsubscribed, also when two add calls for one id overlap.
C31_OneLiveSubscription ==
    \A id \in StreamNames : live[id] = IF id \in active THEN 1 ELSE 0

\* C37: every stream id that add() reports in alreadyActive has an active
\* subscription when add() returns, and an id whose subscribe attempt failed is
\* reported neither as added nor as alreadyActive.  Stated for an add() that
\* is the only call made so far, so that nothing else has touched the maps.
C37_AlreadyActiveIsActive ==
    (streamLast.op = "add" /\ streamCalls = 1)
    => \A i \in 1..Len(streamLast.second) : streamLast.second[i] \in active

\* C33: after the daemon shutdown sequence has completed no stream
\* subscription is active, also when shutdown is requested while the connection
\* task is still subscribing the desired streams.
C33_NoneActiveAfterShutdown == shutdown = "complete" => active = {}

\* the members of a list
Range(list) == { list[i] : i \in 1..Len(list) }

\* the connection has just been established: resubscribeAll has begun
JustConnected == connectionReady /\ connTask = "resubscribing" /\ caller["k1"].pc = "closing"

\* subscribe() for the id threw inside resubscribeAll
SubscribeFailed(id) ==
    \/ id \in Range(caller["k1"].alreadyActive)
    \/ streamLast.op = "resubscribeAll" /\ id \in Range(streamLast.second)

\* every id desired when the connection is established gets an active
\* subscription, unless it is unsubscribed or its subscribe() fails
DesiredGetsActive ==
    \A id \in StreamNames :
        (JustConnected /\ id \in desired)
            ~> (id \in active \/ id \notin desired \/ SubscribeFailed(id))

\* a request made while not connected has recorded its ids as desired and
\* has reported every one of them as queued
QueuedAllReported ==
    (lifeLast.op = "subscribe" /\ ~lifeLast.connected)
    => /\ Range(lifeLast.ids) \subseteq desired
       /\ Range(lifeLast.ids) \subseteq Range(lifeLast.queued)

\* a request made while not connected records its ids as desired and
\* reports as queued those that were not desired before
QueuedNewReported ==
    (SubscribeStreams /\ ~connectionReady)
    => /\ Range(lifeLast'.ids) \subseteq desired'
       /\ Range(lifeLast'.queued) = Range(lifeLast'.ids) \ desired

\* C32 as stated: every stream id requested while the daemon is not yet
\* connected is recorded as desired and reported as queued, and once the
\* connection is established it eventually has an active subscription,
\* provided subscribing succeeds and the id was not unsubscribed in between.
C32_QueuedAllThenActive == [](QueuedAllReported) /\ DesiredGetsActive

\* C32: every stream id requested while the daemon is not yet connected is
\* recorded as desired, and reported as queued when it was not desired before;
\* once the connection is established it eventually has an active
\* subscription, provided subscribing succeeds and the id was not unsubscribed
\* in between.
C32_QueuedThenActive == [][QueuedNewReported]_vars /\ DesiredGetsActive

\* an id that a request queued before the connection has its subscription
C32_Witness ==
    /\ lifeLast.op = "subscribe" /\ ~lifeLast.connected
    /\ connectionReady
    /\ \E id \in Range(lifeLast.queued) : id \in active /\ live[id] = 1

\* C35: a device challenge is single-use: after complete() has succeeded for
\* a challengeId, every further complete() with the same challengeId (one that
\* begin() has not generated anew) returns false and installs no credentials.
C35_SingleUse ==
    [][\A id \in spent :
          (DeviceComplete /\ devLast'.id = id)
          => /\ ~devLast'.result
             /\ authStatus' = "error"
             /\ authToken' = NoToken
             /\ spent' = spent]_vars

\* complete() has been refused for a challengeId it had accepted before
C35_Witness ==
    /\ devLast.op = "complete"
    /\ devLast.id \in spent
    /\ ~devLast.result
    /\ ~devLast.known
    /\ authToken = NoToken

\* the operation went to Supabase in a call of its kind
Sent(entry) ==
    /\ entry.table \in KnownTables
    /\ HasRow(entry)
    /\ IF entry.op = "DELETE"
       THEN CallsWith(deleteCalls, RemoteTable(entry.table), buildRow(entry)) # {}
       ELSE CallsWith(upsertCalls, RemoteTable(entry.table), buildRow(entry)) # {}

\* an operation applyTransaction has something to send for
Mirrored(entry) == entry.table \in KnownTables /\ HasRow(entry)

\* a failed transaction or batch is not completed, and a completed batch was
\* empty or applied
FailureNotCompleted ==
    /\ writerResult \notin { "ok", "none" } => ~writerCompleted
    /\ writerCompleted => writerResult = "ok"
    /\ batchLast.completed => (batchLast.operations = 0 \/ batchLast.applied)

\* a failure ends the call with the error, and a call that has ended with an
\* error takes no further transaction or batch
FailureEndsCall ==
    /\ (txs' # txs /\ writerResult' # "ok") => uploadPc' = "thrown"
    /\ (batchPc = "running" /\ batchLast'.taken /\ ~batchLast'.completed)
           => batchPc' = "thrown"
    /\ uploadPc = "thrown" => txs' = txs
    /\ (batchPc = "thrown" /\ batchLast' # batchLast) => ~batchLast'.taken

\* C34 as stated: a CRUD transaction or batch is marked complete only after
\* all of its operations were applied to the backend without error; when
\* applying fails, that transaction is not completed, no later transaction is
\* processed in the same call, and the error is raised to the caller.
C34_CompleteAfterAllApplied ==
    /\ [](FailureNotCompleted)
    /\ [](writerCompleted => \A i \in 1..Len(writerTx) : Sent(writerTx[i]))
    /\ [][FailureEndsCall]_vars

\* C34: a CRUD transaction or batch is marked complete only after every
\* operation of it that names a mirrored table and has a row id was sent to
\* the backend without error (other operations are skipped); when applying
\* fails, that transaction is not completed, no later transaction is
\* processed in the same call, and the error is raised to the caller.
C34_CompleteAfterApplied ==
    /\ [](FailureNotCompleted)
    /\ [](writerCompleted =>
             \A i \in 1..Len(writerTx) : Mirrored(writerTx[i]) => Sent(writerTx[i]))
    /\ [][FailureEndsCall]_vars

\* the delete of a transaction failed after its upsert went through
C34_Witness ==
    /\ writerResult = "delete failed"
    /\ Len(upsertCalls) > 0
    /\ ~writerCompleted
    /\ uploadPc = "thrown"

\* C36: after any sequence of writeFile, rename, unlink, rmdir and rm the
\* bytes of every external file node are readable through readFile at the
\* node's current path, and the pack store holds no entry for a path that no
\* longer exists in the tree.
C36_ExternalBytesFollow ==
    /\ \A q \in DOMAIN fsTree :
          (fsTree[q].type = "file" /\ fsTree[q].external)
          => readFile(fsTree, packEntries, Abs(q), "none").res.code = "ok"
    /\ \A key \in DOMAIN packEntries : PathIsFile(key)

\* the directory at the path a writeFile step names, before the step
WriteOnDirectory ==
    /\ fsLast'.op = "writeFile"
    /\ clock' = clock + 1
    /\ PathIsDir(fsLast'.path)

\* C38: writeFile on a path that currently names a directory fails with
\* code EISDIR and leaves the directory and everything below it in place.
C38_WriteOnDirectoryFails ==
    [][WriteOnDirectory => (fsLast'.code = "EISDIR" /\ fsTree' = fsTree)]_vars

\* a migration started by the migration effect is still running
MigrationRunning == \E r \in EffectRunIds : migratePc[r] = "running"

\* C39: rawTablesReady is never true, and connect() is never on its way,
\* while a migration started by the provider's migration effect is still
\* running, also when the effect has run again before the first run finished.
C39_ReadyAfterMigration ==
    MigrationRunning => (~rawTablesReady /\ connectPc # "connecting")

====
